---- MODULE Spec2Model ----
\* Model of lamb's partial application and generic (src/src/array.js), of
\* the currying helpers built on _curry (src/src/object.js, src/src/array.js)
\* and of immutable (src/src/object.js).
EXTENDS Integers, Sequences, FiniteSets, TLC

\* ---------------------------------------------------------------- values
\* Every JavaScript value of the model is a string, so that any two values
\* can be compared.
\* The placeholder: "var _ = lamb", compared by identity (boundArg === _).
PH == "_"
\* JavaScript's undefined.
UNDEF == "undefined"
\* Concrete values that partial() may capture as bound slots.
BoundVals == {"a", "b"}
\* Concrete values a caller may pass at call time (besides the placeholder,
\* which a caller may pass too).
RunVals == {"x"}

\* Longest bound-slot list given to partial().
MaxSlots == 2
\* Longest runtime argument list given to a built function.
MaxArgs == 2
\* The callers that may have an invocation of the built function in progress.
Callers == {"c1", "c2"}

SeqsUpTo(S, n) == UNION {[1..k -> S] : k \in 0..n}
SlotLists == SeqsUpTo(BoundVals \cup {PH}, MaxSlots)
ArgLists == SeqsUpTo(RunVals \cup {PH}, MaxArgs)

VARIABLES
    built,    \* TRUE once partial(fn, ...args) has returned the built function
    wrappedFn, \* partial's parameter fn: the value it was given to wrap
    args,     \* the bound slots captured by the closure (array.js:1073)
    frame,    \* per caller: the activation record of the built function
    curried,  \* the curried functions built so far, the root first
    last,     \* the outcome of the call of a curried function in progress
    wrapper,  \* the function generic(method) has returned
    gcall,    \* the outcome of the call of that function in progress
    props,    \* the heap: the value of every property of every object
    kind,     \* how an object holds the property of each name
    frozen,   \* the objects Object.freeze has been applied to
    imm,      \* per call of immutable: its root, its seen list and its stack
    util      \* the call of an array or object utility and its outcome

partialVars == <<built, wrappedFn, args, frame>>
curryVars == <<curried, last>>
genericVars == <<wrapper, gcall>>
freezerVars == <<props, kind, frozen, imm>>
utilVars == <<util>>
vars == <<built, wrappedFn, args, frame, curried, last, wrapper, gcall,
          props, kind, frozen, imm, util>>
notPartial == <<curryVars, genericVars, freezerVars, utilVars>>
notCurry == <<partialVars, genericVars, freezerVars, utilVars>>
notGeneric == <<partialVars, curryVars, freezerVars, utilVars>>
notFreezer == <<partialVars, curryVars, genericVars, utilVars>>
notUtil == <<partialVars, curryVars, genericVars, freezerVars>>

\* ------------------------------------------------- JavaScript array access
\* Mutant of ArrayGet: a read outside the array fails instead of giving
\* undefined.
ArrayGetChecked(arr, idx) ==
    IF idx >= 0 /\ idx < Len(arr) THEN arr[idx + 1] ELSE "RangeError"

\* arr[idx] with a 0-based index: undefined outside the array.
ArrayGet(arr, idx) ==
    IF idx >= 0 /\ idx < Len(arr) THEN arr[idx + 1] ELSE UNDEF

\* arr[idx] = v with a 0-based index: the array grows as needed and the
\* positions it skips read as undefined.
ArraySet(arr, idx, v) ==
    [k \in 1..(IF idx + 1 > Len(arr) THEN idx + 1 ELSE Len(arr)) |->
        IF k = idx + 1 THEN v
        ELSE IF k <= Len(arr) THEN arr[k] ELSE UNDEF]

\* _argsTail.apply(null, arguments): the arguments after the first one.
_argsTail(arguments) == Tail(arguments)

\* ------------------------------------------------------------ partial
\* The activation record of one call of the built function. pc is "idle"
\* (no call in progress), "running" (in one of the two loops) or "applied"
\* (fn.apply has been evaluated and the call is about to return).
IdleFrame ==
    [pc |-> "idle", this |-> UNDEF, arguments |-> <<>>, lastIdx |-> 0,
     newArgs |-> <<>>, i |-> 0, applied |-> 0, passed |-> <<>>,
     passedThis |-> UNDEF]

\* The values partial and generic may be given to wrap: functions, and
\* values that cannot be called.
Functions == {"fn", "m", "slice"}
NonCallables == {"5", UNDEF}
\* typeof x === "function".
Callable(x) == x \in Functions

\* partial(x, ...slots): captures x and the slots and returns the built
\* function; x is not looked at.
partialOf(x, slots) ==
    /\ ~built
    /\ wrapper.kind = "none"
    /\ built' = TRUE
    /\ wrappedFn' = x
    /\ args' = _argsTail(<<x>> \o slots)
    /\ UNCHANGED <<frame, notPartial>>

\* partial(fn, ...slots) for the function "fn".
partial(slots) == partialOf("fn", slots)

\* "var lastIdx = 0; var newArgs = [];" and "i = 0" of the first loop.
NewFrame(R) ==
    [IdleFrame EXCEPT !.pc = "running", !.arguments = R]

\* Caller c calls the built function with the runtime arguments R and
\* this = t, as in g.call(t, ...R) or t.g(...R).
InvokeOn(c, R, t) ==
    /\ built
    /\ frame[c].pc = "idle"
    /\ frame' = [frame EXCEPT ![c] = [NewFrame(R) EXCEPT !.this = t]]
    /\ UNCHANGED <<built, wrappedFn, args, notPartial>>

\* Caller c calls the built function as a plain function, g(...R).
Invoke(c, R) == InvokeOn(c, R, UNDEF)

\* Mutant of SlotValue: a placeholder met among the runtime arguments is
\* taken for a gap and not for a value.
SlotValueRuntimeGap(boundArg, arguments, lastIdx) ==
    IF boundArg = PH
    THEN (IF ArrayGet(arguments, lastIdx) = PH THEN UNDEF
          ELSE ArrayGet(arguments, lastIdx))
    ELSE boundArg

\* Mutant of SlotValue: a placeholder slot that finds no runtime argument
\* left stays in the vector.
SlotValueKeepPlaceholder(boundArg, arguments, lastIdx) ==
    IF boundArg = PH /\ lastIdx < Len(arguments)
    THEN ArrayGet(arguments, lastIdx)
    ELSE boundArg

\* "boundArg === _ ? arguments[lastIdx++] : boundArg": the value stored ...
SlotValue(boundArg, arguments, lastIdx) ==
    IF boundArg = PH THEN ArrayGet(arguments, lastIdx) ELSE boundArg

\* Mutant of SlotLastIdx: "arguments[lastIdx]" without the increment.
SlotLastIdxNoAdvance(boundArg, arguments, lastIdx) == lastIdx

\* ... and lastIdx after it.
SlotLastIdx(boundArg, arguments, lastIdx) ==
    IF boundArg = PH THEN lastIdx + 1 ELSE lastIdx

\* Mutant of For1: the substitution is written into the captured slot list
\* as well, "args[i] = newArgs[i] = ...".
For1InPlace(c) ==
    LET f == frame[c]
        boundArg == ArrayGet(args, f.i)
        v == SlotValue(boundArg, f.arguments, f.lastIdx)
    IN  /\ f.pc = "running"
        /\ f.i < Len(args)
        /\ frame' = [frame EXCEPT ![c] =
                [f EXCEPT
                    !.newArgs = ArraySet(f.newArgs, f.i, v),
                    !.lastIdx = SlotLastIdx(boundArg, f.arguments, f.lastIdx),
                    !.i = f.i + 1]]
        /\ args' = ArraySet(args, f.i, v)
        /\ UNCHANGED <<built, wrappedFn, notPartial>>

\* One pass through the first loop: "i < argsLen" holds,
\* "boundArg = args[i]; newArgs[i] = ...;" and "i++".
For1(c) ==
    LET f == frame[c]
        boundArg == ArrayGet(args, f.i)
    IN  /\ f.pc = "running"
        /\ f.i < Len(args)
        /\ frame' = [frame EXCEPT ![c] =
                [f EXCEPT
                    !.newArgs = ArraySet(f.newArgs, f.i,
                                    SlotValue(boundArg, f.arguments, f.lastIdx)),
                    !.lastIdx = SlotLastIdx(boundArg, f.arguments, f.lastIdx),
                    !.i = f.i + 1]]
        /\ UNCHANGED <<built, wrappedFn, args, notPartial>>

\* One pass through the second loop, entered when the first has ended:
\* "lastIdx < len" holds, "newArgs[i++] = arguments[lastIdx]", "lastIdx++".
For2(c) ==
    LET f == frame[c]
    IN  /\ f.pc = "running"
        /\ ~(f.i < Len(args))
        /\ f.lastIdx < Len(f.arguments)
        /\ frame' = [frame EXCEPT ![c] =
                [f EXCEPT
                    !.newArgs = ArraySet(f.newArgs, f.i,
                                    ArrayGet(f.arguments, f.lastIdx)),
                    !.i = f.i + 1,
                    !.lastIdx = f.lastIdx + 1]]
        /\ UNCHANGED <<built, wrappedFn, args, notPartial>>

\* Mutant of ApplyThis: "fn.apply(null, newArgs)".
ApplyThisNull(this) == UNDEF

\* The first argument of "fn.apply(this, newArgs)".
ApplyThis(this) == this

\* Both loops have ended: "fn.apply(this, newArgs)"; passed is the vector
\* fn receives, passedThis its this, and applied counts the calls of fn
\* made by this call. A TypeError is thrown when fn cannot be called.
Apply(c) ==
    LET f == frame[c]
    IN  /\ f.pc = "running"
        /\ ~(f.i < Len(args))
        /\ ~(f.lastIdx < Len(f.arguments))
        /\ frame' = [frame EXCEPT ![c] =
                IF Callable(wrappedFn)
                THEN [f EXCEPT !.pc = "applied",
                               !.applied = f.applied + 1,
                               !.passed = f.newArgs,
                               !.passedThis = ApplyThis(f.this)]
                ELSE [f EXCEPT !.pc = "threw"]]
        /\ UNCHANGED <<built, wrappedFn, args, notPartial>>

\* "return ...": the call of the built function returns to caller c, or
\* the TypeError reaches it.
Return(c) ==
    /\ frame[c].pc \in {"applied", "threw"}
    /\ frame' = [frame EXCEPT ![c] = IdleFrame]
    /\ UNCHANGED <<built, wrappedFn, args, notPartial>>

\* No call of a curried function is in progress.
NoCall ==
    [kind |-> "none", callee |-> 0, xs |-> <<>>, invoked |-> 0,
     vec |-> <<>>, result |-> <<>>, new |-> 0]

\* generic has not been called.
NoWrapper ==
    [kind |-> "none", target |-> UNDEF, boundThis |-> UNDEF,
     boundArgs |-> <<>>]

\* No call of the function generic returned is in progress.
NoGenericCall == [kind |-> "none"]

\* No utility has been called.
NoUtil == [op |-> "none"]

\* Nothing has been built or called.
InitFunctions ==
    /\ util = NoUtil
    /\ built = FALSE
    /\ wrappedFn = UNDEF
    /\ args = <<>>
    /\ frame = [c \in Callers |-> IdleFrame]
    /\ curried = <<>>
    /\ last = NoCall
    /\ wrapper = NoWrapper
    /\ gcall = NoGenericCall

\* ... and there is no object on the heap.
Init ==
    /\ InitFunctions
    /\ props = <<>>
    /\ kind = <<>>
    /\ frozen = {}
    /\ imm = <<>>

Next ==
    \/ \E slots \in SlotLists : partial(slots)
    \/ \E c \in Callers, R \in ArgLists : Invoke(c, R)
    \/ \E c \in Callers : For1(c)
    \/ \E c \in Callers : For2(c)
    \/ \E c \in Callers : Apply(c)
    \/ \E c \in Callers : Return(c)

Spec == Init /\ [][Next]_vars

\* ------------------------------------------------------------ currying
\* _curry(fn, arity, strict) is defined in none of the source files; it is
\* modelled from the specification's section 4.3. The functions it is given
\* and the places that call it are modelled from the source.

\* The values passed to curried functions: an object and a property name.
CurryVals == {"user", "name"}
\* The object named "user": {name: "john"}.
Props == [user |-> [name |-> "john"]]

\* Largest arity given to _curry for the generic function "fn".
MaxArity == 3
\* Most arguments supplied in one call of a curried function.
MaxBatch == 3
\* Most curried functions (the root and its intermediates) alive at once.
MaxCurried == 3

Batches == SeqsUpTo(CurryVals, MaxBatch) \ {<<>>}

\* getIn(obj, key): "return obj[key]". A string primitive has none of the
\* keys of the model.
getIn(obj, key) ==
    IF obj \in DOMAIN Props /\ key \in DOMAIN Props[obj]
    THEN Props[obj][key] ELSE UNDEF

\* has(obj, key): "return key in obj", a TypeError when obj is a primitive.
has(obj, key) ==
    IF obj \in DOMAIN Props
    THEN (IF key \in DOMAIN Props[obj] THEN "true" ELSE "false")
    ELSE "TypeError"

\* The functions the source hands to _curry with (fn, 2, true) ...
StrictHelpers == {"getIn", "has", "hasOwn", "validate", "drop", "take"}
\* ... and with fn alone: function (getKeys, obj) declares two parameters.
PlainHelpers == {"_pairsFrom", "_tearFrom", "_valuesFrom"}

\* The calls of _curry: those of the source, and "fn" with every arity and
\* both modes.
Builds ==
    [fn : StrictHelpers, arity : {2}, strict : {TRUE}]
    \cup [fn : PlainHelpers, arity : {2}, strict : {FALSE}]
    \cup [fn : {"fn"}, arity : 1..MaxArity, strict : BOOLEAN]

\* What fn returns for the vector vec, as a list: the value for getIn and
\* has, the application itself, fn followed by its arguments, for the
\* functions the model leaves uninterpreted.
FnResult(fn, vec) ==
    CASE fn = "getIn" -> <<getIn(ArrayGet(vec, 0), ArrayGet(vec, 1))>>
      [] fn = "has" -> <<has(ArrayGet(vec, 0), ArrayGet(vec, 1))>>
      [] OTHER -> <<fn>> \o vec

\* The curried function _curry returns: nothing accumulated yet. supplied
\* and calls record, beside the accumulation buffer acc, the arguments given
\* along the chain of calls that led to the function and their number.
_curry(fn, arity, strict) ==
    [fn |-> fn, arity |-> arity, strict |-> strict, acc |-> <<>>,
     supplied |-> <<>>, calls |-> 0]

\* Mutant of Accumulate: the new arguments are put before the prefix.
AccumulatePrepend(acc, xs) == xs \o acc

\* "arguments accumulate across calls": the prefix followed by the call's.
Accumulate(acc, xs) == acc \o xs

\* Mutant of Completes: fn is invoked only when the arity is exceeded.
CompletesLate(c, xs) == Len(c.acc) + Len(xs) > c.arity

\* "until the running total reaches arity".
Completes(c, xs) == Len(c.acc) + Len(xs) >= c.arity

\* Mutant of Overshoots: the strict flag is not looked at.
OvershootsNever(c, xs) == FALSE

\* "strict ... supplying more than needed is an error (ArityMismatch)".
Overshoots(c, xs) == c.strict /\ Len(xs) > c.arity - Len(c.acc)

\* The program builds the curried function b.
Curry(b) ==
    /\ curried = <<>>
    /\ curried' = <<_curry(b.fn, b.arity, b.strict)>>
    /\ UNCHANGED <<notCurry, last>>

\* Calling curried function i with xs in strict mode, xs being more than
\* what is still needed: ArityMismatch.
CallOvershoot(i, xs) ==
    /\ last.kind = "none"
    /\ Overshoots(curried[i], xs)
    /\ last' = [NoCall EXCEPT !.kind = "ArityMismatch", !.callee = i, !.xs = xs]
    /\ UNCHANGED <<notCurry, curried>>

\* Calling curried function i with xs that reach the arity: fn is invoked
\* with the accumulated arguments and its result returned.
CallComplete(i, xs) ==
    LET c == curried[i]
        vec == Accumulate(c.acc, xs)
    IN  /\ last.kind = "none"
        /\ ~Overshoots(c, xs)
        /\ Completes(c, xs)
        /\ last' = [NoCall EXCEPT !.kind = "result", !.callee = i, !.xs = xs,
                        !.invoked = 1, !.vec = vec,
                        !.result = FnResult(c.fn, vec)]
        /\ UNCHANGED <<notCurry, curried>>

\* Mutant of CallAccumulate: the callee's own buffer is extended and the
\* callee itself returned.
CallAccumulateInPlace(i, xs) ==
    LET c == curried[i]
    IN  /\ last.kind = "none"
        /\ ~Overshoots(c, xs)
        /\ ~Completes(c, xs)
        /\ curried' = [curried EXCEPT ![i] =
                [c EXCEPT !.acc = Accumulate(c.acc, xs),
                          !.supplied = c.supplied \o xs,
                          !.calls = c.calls + 1]]
        /\ last' = [NoCall EXCEPT !.kind = "partial", !.callee = i, !.xs = xs,
                        !.new = i]
        /\ UNCHANGED notCurry

\* Calling curried function i with xs that do not reach the arity: a new
\* curried function capturing the longer prefix is returned.
CallAccumulate(i, xs) ==
    LET c == curried[i]
    IN  /\ last.kind = "none"
        /\ ~Overshoots(c, xs)
        /\ ~Completes(c, xs)
        /\ Len(curried) < MaxCurried
        /\ curried' = Append(curried,
                [c EXCEPT !.acc = Accumulate(c.acc, xs),
                          !.supplied = c.supplied \o xs,
                          !.calls = c.calls + 1])
        /\ last' = [NoCall EXCEPT !.kind = "partial", !.callee = i, !.xs = xs,
                        !.new = Len(curried) + 1]
        /\ UNCHANGED notCurry

\* The call has returned or thrown: its outcome is in the caller's hands.
CallReturn ==
    /\ last.kind # "none"
    /\ last' = NoCall
    /\ UNCHANGED <<notCurry, curried>>

NextCurry ==
    \/ \E b \in Builds : Curry(b)
    \/ \E i \in DOMAIN curried, xs \in Batches : CallOvershoot(i, xs)
    \/ \E i \in DOMAIN curried, xs \in Batches : CallComplete(i, xs)
    \/ \E i \in DOMAIN curried, xs \in Batches : CallAccumulate(i, xs)
    \/ CallReturn

SpecCurry == Init /\ [][NextCurry]_vars

\* ---------------------------------------------------------------------
\* generic (array.js:1038) and the functions built with it

\* The receivers a generic function is called on: an array, a string,
\* a number and null; UndefRecv is the receiver of a call with no argument.
ArrayRecv == [type |-> "array", items |-> <<"1", "2", "3", "4">>]
StringRecv == [type |-> "string", items |-> <<"f", "o", "o">>]
NumberRecv == [type |-> "number", items |-> <<>>]
NullRecv == [type |-> "null", items |-> <<>>]
UndefRecv == [type |-> UNDEF, items |-> <<>>]
Receivers == {ArrayRecv, StringRecv, NumberRecv, NullRecv}

\* The arguments that follow the receiver: indexes for slice.
SliceIdx == {-1, 0, 1, 3}

\* The argument lists the function generic returned is called with.
GenericArgs ==
    {<<>>} \cup {<<r>> \o ns : r \in Receivers, ns \in SeqsUpTo(SliceIdx, MaxArgs)}

\* The values given to generic and to partial to wrap.
GenericTargets == {"m", "slice"} \cup NonCallables
PartialTargets == {"fn"} \cup NonCallables

\* The this values the function partial built is called on.
Thises == {UNDEF, "t1", "t2"}

\* A thrown TypeError, as the outcome of a call.
TypeError ==
    [kind |-> "TypeError", this |-> UndefRecv, args |-> <<>>, value |-> <<>>]

Min(a, b) == IF a < b THEN a ELSE b
Max(a, b) == IF a > b THEN a ELSE b

\* A relative index of Array.prototype.slice, clamped into 0..len.
Clamp(rel, len) == IF rel < 0 THEN Max(len + rel, 0) ELSE Min(rel, len)

\* Array.prototype.slice applied to receiver recv with the arguments margs:
\* null and undefined have no object to slice, a number has length 0.
ArraySlice(recv, margs) ==
    IF recv.type \in {"null", UNDEF}
    THEN TypeError
    ELSE LET len == Len(recv.items)
             k == IF Len(margs) >= 1 THEN Clamp(margs[1], len) ELSE 0
             final == IF Len(margs) >= 2 THEN Clamp(margs[2], len) ELSE len
         IN  [kind |-> "returned", this |-> recv, args |-> margs,
              value |-> SubSeq(recv.items, k + 1, final)]

\* method.call(recv, ...margs) written out: the method runs with this =
\* recv and the arguments margs. "m" stands for any method and returns
\* nothing; what it was called with is kept in the outcome.
CallMethod(method, recv, margs) ==
    IF method = "slice"
    THEN ArraySlice(recv, margs)
    ELSE [kind |-> "returned", this |-> recv, args |-> margs, value |-> <<>>]

\* Mutant of FunctionBind: the bound this is required to be callable when
\* the function is built.
FunctionBindChecked(target, thisArg, boundArgs) ==
    IF Callable(thisArg)
    THEN [kind |-> "bound", target |-> target, boundThis |-> thisArg,
          boundArgs |-> boundArgs]
    ELSE [kind |-> "TypeError", target |-> target, boundThis |-> thisArg,
          boundArgs |-> boundArgs]

\* Function.prototype.bind applied to the function target: a bound function
\* that remembers thisArg and boundArgs. Its targets here, Function.bind
\* and Function.call, are functions, so it does not throw.
FunctionBind(target, thisArg, boundArgs) ==
    [kind |-> "bound", target |-> target, boundThis |-> thisArg,
     boundArgs |-> boundArgs]

\* Mutant of FunctionCall: the receiver is not taken off the arguments.
FunctionCallKeepReceiver(func, A) ==
    IF Callable(func)
    THEN CallMethod(func, UndefRecv, A)
    ELSE TypeError

\* Function.prototype.call applied to func with the arguments A: func runs
\* with this = A[0] and the arguments after it; a TypeError when func is
\* not a function.
FunctionCall(func, A) ==
    IF Callable(func)
    THEN CallMethod(func, IF Len(A) > 0 THEN Head(A) ELSE UndefRecv,
                    IF Len(A) > 0 THEN Tail(A) ELSE <<>>)
    ELSE TypeError

\* "var generic = Function.bind.bind(Function.call)": generic is
\* Function.bind bound to this = Function.call.
genericFn == FunctionBind("Function.bind", "Function.call", <<>>)

\* generic(x): calling the bound function genericFn runs Function.bind with
\* this = Function.call and the argument x, which is Function.call.bind(x).
generic(x) ==
    FunctionBind(genericFn.boundThis, x, genericFn.boundArgs)

\* Calling the function generic returned with the arguments A runs its
\* target, Function.call, with this = the wrapped value.
CallBound(b, A) == FunctionCall(b.boundThis, b.boundArgs \o A)

\* "generic(x)" is evaluated.
Generic(x) ==
    /\ wrapper.kind = "none"
    /\ ~built
    /\ wrapper' = generic(x)
    /\ UNCHANGED <<gcall, notGeneric>>

\* The function generic returned is called with the arguments A.
GenericCall(A) ==
    /\ wrapper.kind = "bound"
    /\ gcall.kind = "none"
    /\ gcall' = [kind |-> "done", A |-> A, out |-> CallBound(wrapper, A)]
    /\ UNCHANGED <<wrapper, notGeneric>>

\* The call returns, or its TypeError reaches the caller.
GenericReturn ==
    /\ gcall.kind = "done"
    /\ gcall' = NoGenericCall
    /\ UNCHANGED <<wrapper, notGeneric>>

\* One program builds a function with generic or with partial, of a value
\* that may not be callable, and calls it on any this.
NextWrappers ==
    \/ \E x \in GenericTargets : Generic(x)
    \/ \E A \in GenericArgs : GenericCall(A)
    \/ GenericReturn
    \/ \E x \in PartialTargets, slots \in SlotLists : partialOf(x, slots)
    \/ \E R \in ArgLists, t \in Thises : InvokeOn("c1", R, t)
    \/ For1("c1")
    \/ For2("c1")
    \/ Apply("c1")
    \/ Return("c1")

SpecWrappers == Init /\ [][NextWrappers]_vars

\* ---------------------------------------------------------------------
\* immutable and _immutable (object.js:2-16, 384-386)

\* Most objects on the heap.
MaxNodes == 2
NodeNames == <<"o1", "o2", "o3", "o4">>
Nodes == {NodeNames[n] : n \in 1..MaxNodes}

\* The property names, in the order Object.getOwnPropertyNames lists them.
KeyOrder == <<"p", "q">>
Keys == {KeyOrder[n] : n \in 1..Len(KeyOrder)}

\* The primitive values: a number, a string, a boolean, null, undefined.
Primitives == {"1", "s", "true", "null", UNDEF}

\* A property is an enumerable own property, a non-enumerable own property
\* ("hidden"), or it is inherited from the prototype.
Kinds == {"own", "hidden", "inherited"}

\* The heaps: property p holds an object or a number, q an object or null.
Heaps == [Nodes -> [p : Nodes \cup {"1"}, q : Nodes \cup {"null"}]]
\* The heaps whose objects have null for q.
HeapsOneKey == [Nodes -> [p : Nodes \cup {"1"}, q : {"null"}]]
\* Every property is an enumerable own property ...
AllOwn == [o \in Nodes |-> [p |-> "own", q |-> "own"]]
\* ... or q is of any kind.
KindsOfQ == [Nodes -> [p : {"own"}, q : Kinds]]
\* The objects frozen before immutable is called: any of them.
PreFrozen == SUBSET Nodes

\* The calls of immutable that may be in progress at the same time.
ImmCalls == {"i1", "i2"}
\* What JavaScript engines do with Object.freeze and
\* Object.getOwnPropertyNames of a primitive: ES5 throws a TypeError,
\* ES2015 converts the primitive to an object, which null and undefined
\* do not have.
Engines == {"ES5", "ES2015"}

\* "typeof value".
TypeOf(value) ==
    CASE value \in Nodes \cup {"null"} -> "object"
      [] value = "1" -> "number"
      [] value = "s" -> "string"
      [] value = "true" -> "boolean"
      [] OTHER -> UNDEF

\* isNull is defined in none of the source files: value === null.
isNull(value) == value = "null"

\* One call of immutable: the seen array of its _immutable calls, the
\* stack of the _immutable calls in progress (obj, whether the seen test
\* is still to come, the names forEach has yet to visit), the frozen
\* objects when the call began, and whether it is a call on the result of
\* an earlier call, whose argument was origin.
IdleCall ==
    [pc |-> "idle", root |-> UNDEF, origin |-> UNDEF, seen |-> <<>>,
     stack |-> <<>>, before |-> {}, again |-> FALSE, result |-> UNDEF]

\* A new call of _immutable on obj.
Entering(obj) == [obj |-> obj, at |-> "enter", names |-> <<>>]

\* Deepest recursion the engine allows before it throws a RangeError.
StackLimit == MaxNodes + 1

\* The _immutable call in progress of call k.
Top(k) == imm[k].stack[Len(imm[k].stack)]

\* The elements of an array.
Range(arr) == {arr[n] : n \in 1..Len(arr)}

\* Mutant of Seen: an object that is frozen counts as seen.
SeenOrFrozen(k, obj) == obj \in Range(imm[k].seen) \/ obj \in frozen

\* Mutant of Seen: only the objects under processing count as seen.
SeenOnStack(k, obj) ==
    \E n \in 1..Len(imm[k].stack) :
        imm[k].stack[n].obj = obj /\ imm[k].stack[n].at = "each"

\* Mutant of Seen: nothing counts as seen.
SeenNever(k, obj) == FALSE

\* Mutant of Seen: one seen array is shared by all calls.
SeenShared(k, obj) == \E j \in ImmCalls : obj \in Range(imm[j].seen)

\* "seen.indexOf(obj) === -1" is false: obj is in the seen array of call k.
Seen(k, obj) == obj \in Range(imm[k].seen)

\* Mutant of Freeze: freezing a frozen object unfreezes it.
FreezeToggle(F, obj) == IF obj \in F THEN F \ {obj} ELSE F \cup {obj}

\* Object.freeze(obj), F being the frozen objects.
Freeze(F, obj) == F \cup {obj}

\* Mutant of OwnPropertyNames: Object.keys(obj), the enumerable ones.
ObjectKeys(obj) ==
    SelectSeq(KeyOrder, LAMBDA key : kind[obj][key] = "own")

\* Object.getOwnPropertyNames(obj): the own properties, enumerable or not.
OwnPropertyNames(obj) ==
    SelectSeq(KeyOrder, LAMBDA key : kind[obj][key] \in {"own", "hidden"})

\* "return obj": the _immutable call in progress returns; the outermost
\* one returns to immutable, which returns its result.
Popped(c) ==
    LET rest == SubSeq(c.stack, 1, Len(c.stack) - 1)
    IN  IF rest = <<>>
        THEN [c EXCEPT !.stack = rest, !.pc = "returned",
                       !.result = c.stack[Len(c.stack)].obj]
        ELSE [c EXCEPT !.stack = rest]

\* "immutable(obj)": _immutable(obj, []) is called with a new seen array.
Immutable(k, obj) ==
    /\ imm[k].pc = "idle"
    /\ imm' = [imm EXCEPT ![k] =
            [IdleCall EXCEPT !.pc = "running", !.root = obj,
                             !.origin = obj,
                             !.stack = <<Entering(obj)>>,
                             !.before = frozen]]
    /\ UNCHANGED <<props, kind, frozen, notFreezer>>

\* "immutable(immutable(obj))": the outer call, on what the inner returned.
ImmutableAgain(k) ==
    /\ imm[k].pc = "returned"
    /\ ~imm[k].again
    /\ imm' = [imm EXCEPT ![k] =
            [IdleCall EXCEPT !.pc = "running", !.root = imm[k].result,
                             !.origin = imm[k].root,
                             !.stack = <<Entering(imm[k].result)>>,
                             !.before = frozen, !.again = TRUE]]
    /\ UNCHANGED <<props, kind, frozen, notFreezer>>

\* "if (seen.indexOf(obj) === -1)" is false: "return obj".
EnterSeen(k) ==
    /\ imm[k].pc = "running"
    /\ Top(k).at = "enter"
    /\ Seen(k, Top(k).obj)
    /\ imm' = [imm EXCEPT ![k] = Popped(imm[k])]
    /\ UNCHANGED <<props, kind, frozen, notFreezer>>

\* obj, an object, is not in seen: "seen.push(Object.freeze(obj))", and
\* forEach is given Object.getOwnPropertyNames(obj).
EnterObject(k) ==
    LET obj == Top(k).obj
    IN  /\ imm[k].pc = "running"
        /\ Top(k).at = "enter"
        /\ ~Seen(k, obj)
        /\ obj \in Nodes
        /\ frozen' = Freeze(frozen, obj)
        /\ imm' = [imm EXCEPT ![k] =
                [imm[k] EXCEPT !.seen = Append(imm[k].seen, obj),
                               !.stack[Len(imm[k].stack)] =
                                   [obj |-> obj, at |-> "each",
                                    names |-> OwnPropertyNames(obj)]]]
        /\ UNCHANGED <<props, kind, notFreezer>>

\* obj, a primitive, is not in seen. Under ES5 Object.freeze(obj) throws;
\* under ES2015 it returns obj, which is pushed, and
\* Object.getOwnPropertyNames(obj) throws for null and undefined and lists
\* otherwise names whose values are primitives (none for a number or a
\* boolean, the indexes and length for a string), so that forEach recurses
\* into nothing.
EnterPrimitive(k) ==
    LET obj == Top(k).obj
    IN  /\ imm[k].pc = "running"
        /\ Top(k).at = "enter"
        /\ ~Seen(k, obj)
        /\ obj \notin Nodes
        /\ \E engine \in Engines :
            imm' = [imm EXCEPT ![k] =
                IF engine = "ES5" \/ obj \in {"null", UNDEF}
                THEN [imm[k] EXCEPT !.pc = "threw"]
                ELSE [imm[k] EXCEPT !.seen = Append(imm[k].seen, obj),
                                    !.stack[Len(imm[k].stack)] =
                                        [obj |-> obj, at |-> "each",
                                         names |-> <<>>]]]
        /\ UNCHANGED <<props, kind, frozen, notFreezer>>

\* One round of forEach: "var value = obj[key]", and _immutable(value, seen)
\* when value is an object and not null; past the engine's recursion limit
\* the call is a RangeError.
Each(k) ==
    LET f == Top(k)
        value == props[f.obj][Head(f.names)]
        next == [imm[k] EXCEPT !.stack[Len(imm[k].stack)].names = Tail(f.names)]
    IN  /\ imm[k].pc = "running"
        /\ f.at = "each"
        /\ f.names # <<>>
        /\ imm' = [imm EXCEPT ![k] =
                IF TypeOf(value) = "object" /\ ~isNull(value)
                THEN IF Len(imm[k].stack) < StackLimit
                     THEN [next EXCEPT !.stack = Append(next.stack, Entering(value))]
                     ELSE [imm[k] EXCEPT !.pc = "overflow"]
                ELSE next]
        /\ UNCHANGED <<props, kind, frozen, notFreezer>>

\* forEach has visited every name: "return obj".
Leave(k) ==
    /\ imm[k].pc = "running"
    /\ Top(k).at = "each"
    /\ Top(k).names = <<>>
    /\ imm' = [imm EXCEPT ![k] = Popped(imm[k])]
    /\ UNCHANGED <<props, kind, frozen, notFreezer>>

\* A heap of objects with enumerable own properties, some of them frozen.
InitImmutable ==
    /\ InitFunctions
    /\ props \in Heaps
    /\ kind = AllOwn
    /\ frozen \in PreFrozen
    /\ imm = [k \in ImmCalls |-> IdleCall]

\* immutable is called on an object or on a primitive, and once more on
\* what it returned.
NextImmutable ==
    \/ \E obj \in {"o1"} \cup Primitives : Immutable("i1", obj)
    \/ ImmutableAgain("i1")
    \/ EnterSeen("i1")
    \/ EnterObject("i1")
    \/ EnterPrimitive("i1")
    \/ Each("i1")
    \/ Leave("i1")

SpecImmutable == InitImmutable /\ [][NextImmutable]_vars

\* The same program, none of the objects frozen, run to its end: immutable
\* is synchronous, every step it can take is taken.
InitUnfrozen ==
    /\ InitImmutable
    /\ frozen = {}

SpecImmutableFair ==
    InitUnfrozen /\ [][NextImmutable]_vars /\ WF_vars(NextImmutable)

\* A heap whose objects have q as an own property, enumerable or not, or
\* inherit it.
InitKinds ==
    /\ InitFunctions
    /\ props \in Heaps
    /\ kind \in KindsOfQ
    /\ frozen = {}
    /\ imm = [k \in ImmCalls |-> IdleCall]

\* immutable is called on the object o1.
NextKinds ==
    \/ Immutable("i1", "o1")
    \/ EnterSeen("i1")
    \/ EnterObject("i1")
    \/ Each("i1")
    \/ Leave("i1")

SpecImmutableKinds == InitKinds /\ [][NextKinds]_vars

\* A heap of unfrozen objects with the one property p.
InitTwo ==
    /\ InitFunctions
    /\ props \in HeapsOneKey
    /\ kind = AllOwn
    /\ frozen = {}
    /\ imm = [k \in ImmCalls |-> IdleCall]

\* Two calls of immutable, on any two objects, their steps interleaved.
NextTwo ==
    \E k \in ImmCalls :
        \/ \E obj \in Nodes : Immutable(k, obj)
        \/ EnterSeen(k)
        \/ EnterObject(k)
        \/ Each(k)
        \/ Leave(k)

SpecImmutableTwo == InitTwo /\ [][NextTwo]_vars

\* ---------------------------------------------------------------------
\* Array and object utilities (array.js, array_basics.js, object.js)

\* Longest array or array-like object given to a utility.
MaxLen == 3

\* What a call comes to: a returned value or a thrown error.
Returned(v) == [kind |-> "returned", value |-> v, error |-> "none"]
Threw(e) == [kind |-> "threw", value |-> UNDEF, error |-> e]

\* The call of a utility has returned or thrown.
UtilReturn ==
    /\ util.op # "none"
    /\ util' = NoUtil
    /\ UNCHANGED notUtil

\* Function values are named by strings. getKey(key), for the keys of the
\* model: what the curried getKey = _curry(getIn, 2, true) returns when it
\* is called with key.
AccessorName ==
    [name |-> "getKey(name)", age |-> "getKey(age)", length |-> "getKey(length)"]
PluckKeys == {"name", "age"}
Accessors == {AccessorName[key] : key \in DOMAIN AccessorName}
KeyOf(f) == CHOOSE key \in DOMAIN AccessorName : AccessorName[key] = f

\* The symbolic iteratee "f" returns the application itself: its name, the
\* this it ran with and the arguments it was given.
Applied(f, this, xs) == [fn |-> f, this |-> this, args |-> xs]

\* What calling a curried function with xs comes to.
CurriedCall(c, xs) ==
    IF Overshoots(c, xs)
    THEN Threw("ArityMismatch")
    ELSE IF Completes(c, xs)
         THEN Returned(FnResult(c.fn, Accumulate(c.acc, xs))[1])
         ELSE Returned([c EXCEPT !.acc = Accumulate(c.acc, xs),
                                 !.supplied = c.supplied \o xs,
                                 !.calls = c.calls + 1])

\* "var getKey = _curry(getIn, 2, true)".
getKey == _curry("getIn", 2, TRUE)

\* typeof v for the values of the lists given to uniques and group.
TypeName(v) == IF v \in {"0", "-0", "NaN"} THEN "number" ELSE "string"

\* Calling the function named f with this and the arguments xs: an
\* accessor getKey(key); unary(slice), which hands its first argument to
\* slice; identity; the iteratee "typeOf", which returns the type of its
\* first argument; any other name is the symbolic iteratee.
Call(f, this, xs) ==
    CASE f \in Accessors ->
            CurriedCall(CurriedCall(getKey, <<KeyOf(f)>>).value, xs)
      [] f = "unary(slice)" ->
            Returned(ArraySlice([type |-> "array", items |-> xs[1]], <<>>).value)
      [] f = "identity" -> Returned(xs[1])
      [] f = "typeOf" -> Returned(TypeName(xs[1]))
      [] f = "isA" -> Returned(IF xs[1] = "a" THEN "true" ELSE "false")
      [] OTHER -> Returned(Applied(f, this, xs))

\* The loop of map, from index i on: "result[i] = iteratee(arrayLike[i],
\* i, arrayLike)", this being what iteratee was bound to.
RECURSIVE MapFrom(_, _, _, _, _)
MapFrom(arrayLike, iteratee, this, i, result) ==
    IF ~(i < Len(arrayLike))
    THEN Returned(result)
    ELSE LET r == Call(iteratee, this, <<ArrayGet(arrayLike, i), i, arrayLike>>)
         IN  IF r.kind = "threw"
             THEN r
             ELSE MapFrom(arrayLike, iteratee, this, i + 1,
                          ArraySet(result, i, r.value))

\* Mutant of map: the iteratee is bound whenever a context is given.
mapBindsAlways(arguments) ==
    MapFrom(arguments[1], arguments[2],
            IF Len(arguments) >= 3 THEN arguments[3] ELSE UNDEF, 0, <<>>)

\* map(arrayLike, iteratee, iterateeContext), given its arguments object:
\* "if (arguments.length === 3) iteratee = iteratee.bind(iterateeContext)".
map(arguments) ==
    MapFrom(arguments[1], arguments[2],
            IF Len(arguments) = 3 THEN arguments[3] ELSE UNDEF, 0, <<>>)

\* The vector a function built by partial(fn, ...args) hands to fn when it
\* is called with arguments: the two loops of the built function.
RECURSIVE NewArgsFrom(_, _, _, _, _)
NewArgsFrom(boundArgs, arguments, i, lastIdx, newArgs) ==
    IF i < Len(boundArgs)
    THEN NewArgsFrom(boundArgs, arguments, i + 1,
                     SlotLastIdx(ArrayGet(boundArgs, i), arguments, lastIdx),
                     ArraySet(newArgs, i,
                              SlotValue(ArrayGet(boundArgs, i), arguments, lastIdx)))
    ELSE IF lastIdx < Len(arguments)
         THEN NewArgsFrom(boundArgs, arguments, i + 1, lastIdx + 1,
                          ArraySet(newArgs, i, ArrayGet(arguments, lastIdx)))
         ELSE newArgs

\* "function mapWith (iteratee, iterateeContext) { return partial(map, _,
\* iteratee, iterateeContext); }", called with arguments on this: map runs
\* with this and the vector of the built function.
mapWith(iteratee, iterateeContext, arguments) ==
    map(NewArgsFrom(<<PH, iteratee, iterateeContext>>, arguments, 0, 0, <<>>))

\* "function pluck (arrayLike, key) { return map(arrayLike, getKey(key)); }"
pluck(arrayLike, key) == map(<<arrayLike, AccessorName[key]>>)

\* "function pluckKey (key) { return mapWith(getKey(key)); }", the function
\* it returns being called with arrayLike.
pluckKey(key, arrayLike) == mapWith(AccessorName[key], UNDEF, <<arrayLike>>)

\* The elements of the lists given to pluck: an object, a string, a number.
PluckElems == {"user", "name", "5"}

\* "pluck(arrayLike, key)" is evaluated.
Pluck(arrayLike, key) ==
    /\ util.op = "none"
    /\ util' = [op |-> "pluck", arrayLike |-> arrayLike, key |-> key,
                out |-> pluck(arrayLike, key)]
    /\ UNCHANGED notUtil

\* "pluckKey(key)(arrayLike)" is evaluated.
PluckKey(key, arrayLike) ==
    /\ util.op = "none"
    /\ util' = [op |-> "pluckKey", arrayLike |-> arrayLike, key |-> key,
                out |-> pluckKey(key, arrayLike)]
    /\ UNCHANGED notUtil

NextPluck ==
    \/ \E arrayLike \in SeqsUpTo(PluckElems, MaxLen), key \in PluckKeys :
            Pluck(arrayLike, key)
    \/ \E arrayLike \in SeqsUpTo(PluckElems, MaxLen), key \in PluckKeys :
            PluckKey(key, arrayLike)
    \/ UtilReturn

SpecPluck == Init /\ [][NextPluck]_vars

\* ---------------------------------------------------------------------
\* insert and _getInsertionIndex (array.js:23-48, 480-484)

\* The elements of the arrays given to insert, and the element inserted.
InsertVals == 0..2

\* "sorter.ascending = function (a, b) { return a < b ? -1 : a > b ? 1 : 0; }"
ascending(a, b) == IF a < b THEN -1 ELSE IF a > b THEN 1 ELSE 0

\* "sorter.descending = function (a, b) { return b < a ? -1 : b > a ? 1 : 0; }"
descending(a, b) == IF b < a THEN -1 ELSE IF b > a THEN 1 ELSE 0

\* The comparers and the readers a caller passes, undefined for none. The
\* reader "half" gives several elements the same value.
Comparers == {UNDEF, "ascending", "descending"}
Readers == {UNDEF, "identity", "half"}

\* "comparer = comparer || sorter.ascending", and the comparer applied.
Compare(comparer, a, b) ==
    IF comparer = "descending" THEN descending(a, b) ELSE ascending(a, b)

\* "reader = reader || identity", and the reader applied.
Read(reader, v) == IF reader = "half" THEN v \div 2 ELSE v

\* "a || b" for numbers a and b; 0 stands for a missing argument as well.
OrElse(a, b) == IF a = 0 THEN b ELSE a

\* Mutant of BaseIndex: the element is put after the pivot in every case.
BaseIndexAfter(compared, pivot) == pivot + 1

\* "return compared === -1 ? pivot : pivot + 1".
BaseIndex(compared, pivot) == IF compared = -1 THEN pivot ELSE pivot + 1

\* _getInsertionIndex(array, element, comparer, reader, start, end).
RECURSIVE _getInsertionIndex(_, _, _, _, _, _)
_getInsertionIndex(array, element, comparer, reader, start, end) ==
    IF Len(array) = 0
    THEN 0
    ELSE LET s == OrElse(start, 0)
             e == OrElse(end, Len(array))
             pivot == (s + e) \div 2
             compared == Compare(comparer, Read(reader, element),
                                 Read(reader, ArrayGet(array, pivot)))
         IN  IF e - s <= 1
             THEN BaseIndex(compared, pivot)
             ELSE CASE compared = -1 ->
                        _getInsertionIndex(array, element, comparer, reader, s, pivot)
                    [] compared = 0 -> pivot + 1
                    [] compared = 1 ->
                        _getInsertionIndex(array, element, comparer, reader, pivot, e)

\* "result.splice(index, 0, element)": element goes in before position
\* index, at the end when index is past it.
Splice(result, index, element) ==
    LET at == IF index > Len(result) THEN Len(result) ELSE index
    IN  SubSeq(result, 1, at) \o <<element>> \o SubSeq(result, at + 1, Len(result))

\* Mutant of insert: the element is spliced into array itself.
insertInPlace(array, element, comparer, reader) ==
    LET result == Splice(array, _getInsertionIndex(array, element, comparer, reader, 0, 0),
                         element)
    IN  [array |-> result, result |-> result]

\* insert(array, element, comparer, reader): array after the call, and the
\* result, the copy "array.concat()" with the element spliced in.
insert(array, element, comparer, reader) ==
    LET result == array \o <<>>
    IN  [array |-> array,
         result |-> Splice(result,
                           _getInsertionIndex(array, element, comparer, reader, 0, 0),
                           element)]

\* "insert(array, element, comparer, reader)" is evaluated.
Insert(array, element, comparer, reader) ==
    /\ util.op = "none"
    /\ util' = [op |-> "insert", given |-> array, element |-> element,
                comparer |-> comparer, reader |-> reader,
                array |-> insert(array, element, comparer, reader).array,
                out |-> Returned(insert(array, element, comparer, reader).result)]
    /\ UNCHANGED notUtil

NextInsert ==
    \/ \E array \in SeqsUpTo(InsertVals, MaxLen), element \in InsertVals,
          comparer \in Comparers, reader \in Readers :
            Insert(array, element, comparer, reader)
    \/ UtilReturn

SpecInsert == Init /\ [][NextInsert]_vars

\* ---------------------------------------------------------------------
\* isIn and contains (array.js:66-70, 507-518)

\* The values searched and searched for: 0, -0, NaN and undefined.
SvzVals == {"0", "-0", "NaN", UNDEF}

\* The optional argument fromIndex: missing (or undefined), or an integer.
FromIndexes == {<<>>} \cup {<<n>> : n \in -2..2}

\* "a === b": NaN equals nothing, 0 equals -0.
StrictEquals(a, b) == a # "NaN" /\ (a = b \/ {a, b} = {"0", "-0"})

\* isSVZ is defined in none of the source files; the comment of isIn
\* describes it: "you can check for NaN, but 0 and -0 are the same value".
isSVZ(a, b) == StrictEquals(a, b) \/ (a = "NaN" /\ b = "NaN")

\* "fromIndex | 0".
ToInt32(fromIndex) == IF fromIndex = <<>> THEN 0 ELSE fromIndex[1]

\* The loop of isIn from index i on; arrayLike[i] is undefined where i is
\* not an index of arrayLike.
RECURSIVE IsInFrom(_, _, _)
IsInFrom(arrayLike, value, i) ==
    IF ~(i < Len(arrayLike))
    THEN FALSE
    ELSE IF isSVZ(value, ArrayGet(arrayLike, i))
         THEN TRUE
         ELSE IsInFrom(arrayLike, value, i + 1)

\* isIn(arrayLike, value, fromIndex).
isIn(arrayLike, value, fromIndex) ==
    IsInFrom(arrayLike, value, ToInt32(fromIndex))

\* contains(value, fromIndex)(arrayLike).
contains(value, fromIndex, arrayLike) == isIn(arrayLike, value, fromIndex)

\* "isIn(arrayLike, value, fromIndex)" is evaluated.
IsIn(arrayLike, value, fromIndex) ==
    /\ util.op = "none"
    /\ util' = [op |-> "isIn", arrayLike |-> arrayLike, value |-> value,
                fromIndex |-> fromIndex,
                out |-> Returned(isIn(arrayLike, value, fromIndex))]
    /\ UNCHANGED notUtil

\* "contains(value, fromIndex)(arrayLike)" is evaluated.
Contains(value, fromIndex, arrayLike) ==
    /\ util.op = "none"
    /\ util' = [op |-> "contains", arrayLike |-> arrayLike, value |-> value,
                fromIndex |-> fromIndex,
                out |-> Returned(contains(value, fromIndex, arrayLike))]
    /\ UNCHANGED notUtil

NextIsIn ==
    \/ \E arrayLike \in SeqsUpTo(SvzVals, MaxLen), value \in SvzVals,
          fromIndex \in FromIndexes : IsIn(arrayLike, value, fromIndex)
    \/ \E arrayLike \in SeqsUpTo(SvzVals, MaxLen), value \in SvzVals,
          fromIndex \in FromIndexes : Contains(value, fromIndex, arrayLike)
    \/ UtilReturn

SpecIsIn == Init /\ [][NextIsIn]_vars

\* ---------------------------------------------------------------------
\* uniques and union (array.js:826, 853-872)

\* The elements of the lists given to uniques and union.
UniqVals == {"0", "-0", "NaN", "a"}

\* The iteratees given to uniques: none, or one that is many-to-one.
UniqIteratees == {UNDEF, "typeOf"}

\* Mutant of NotSeen: the value is compared with the latest one only.
NotSeenLatest(seen, value) ==
    seen = <<>> \/ ~isSVZ(value, seen[Len(seen)])

\* "!isIn(seen, value)".
NotSeen(seen, value) == ~isIn(seen, value, <<>>)

\* The loop of uniques from index i on.
RECURSIVE UniquesFrom(_, _, _, _, _, _)
UniquesFrom(arrayLike, iteratee, iterateeContext, i, seen, result) ==
    IF ~(i < Len(arrayLike))
    THEN result
    ELSE LET value == Call(iteratee, iterateeContext,
                           <<ArrayGet(arrayLike, i), i, arrayLike>>).value
         IN  IF NotSeen(seen, value)
             THEN UniquesFrom(arrayLike, iteratee, iterateeContext, i + 1,
                              Append(seen, value),
                              Append(result, ArrayGet(arrayLike, i)))
             ELSE UniquesFrom(arrayLike, iteratee, iterateeContext, i + 1,
                              seen, result)

\* uniques(arrayLike, iteratee, iterateeContext): 'if (typeof iteratee !==
\* "function") iteratee = identity'.
uniques(arrayLike, iteratee, iterateeContext) ==
    UniquesFrom(arrayLike, IF iteratee = UNDEF THEN "identity" ELSE iteratee,
                iterateeContext, 0, <<>>, <<>>)

\* "function list () { return slice(arguments); }"
list(arguments) == ArraySlice([type |-> "array", items |-> arguments], <<>>).value

\* "_arrayProto.concat.apply([], array)", array being a list of arrays.
RECURSIVE shallowFlatten(_)
shallowFlatten(array) ==
    IF array = <<>> THEN <<>> ELSE Head(array) \o shallowFlatten(Tail(array))

\* "var flatMap = compose(shallowFlatten, map)": map receives the
\* arguments, shallowFlatten what map returns.
flatMap(arguments) == shallowFlatten(map(arguments).value)

\* "flatMapWith (iteratee, iterateeContext) { return partial(flatMap, _,
\* iteratee, iterateeContext); }", called with arguments.
flatMapWith(iteratee, iterateeContext, arguments) ==
    flatMap(NewArgsFrom(<<PH, iteratee, iterateeContext>>, arguments, 0, 0, <<>>))

\* "var union = compose(uniques, flatMapWith(unary(slice)), list)": from
\* right to left, each function receives what the one before returned.
union(arguments) ==
    uniques(flatMapWith("unary(slice)", UNDEF, <<list(arguments)>>), UNDEF, UNDEF)

\* "uniques(arrayLike, iteratee)" is evaluated.
Uniques(arrayLike, iteratee) ==
    /\ util.op = "none"
    /\ util' = [op |-> "uniques", arrayLike |-> arrayLike, iteratee |-> iteratee,
                out |-> Returned(uniques(arrayLike, iteratee, UNDEF))]
    /\ UNCHANGED notUtil

\* "union(a, b, ...)" is evaluated.
Union(lists) ==
    /\ util.op = "none"
    /\ util' = [op |-> "union", arrayLike |-> shallowFlatten(lists),
                iteratee |-> UNDEF, out |-> Returned(union(lists))]
    /\ UNCHANGED notUtil

NextUniques ==
    \/ \E arrayLike \in SeqsUpTo(UniqVals, MaxLen), iteratee \in UniqIteratees :
            Uniques(arrayLike, iteratee)
    \/ \E lists \in SeqsUpTo(SeqsUpTo(UniqVals, MaxLen - 1), 2) : Union(lists)
    \/ UtilReturn

SpecUniques == Init /\ [][NextUniques]_vars

\* ---------------------------------------------------------------------
\* transpose and zip (array.js:798-812, 893)

\* The elements of the rows given to transpose and of the lists given to
\* zip.
CellVals == {"a", "b"}
Rows == SeqsUpTo(CellVals, MaxLen - 1)
Matrices == SeqsUpTo(Rows, 2)

\* "apply(Math.min, lengths) | 0": the smallest of the lengths, and 0 for
\* none, Math.min() being Infinity. apply is defined in none of the source
\* files.
RECURSIVE MathMin(_)
MathMin(lengths) ==
    IF Len(lengths) = 0 THEN 0
    ELSE IF Len(lengths) = 1 THEN Head(lengths)
    ELSE Min(Head(lengths), MathMin(Tail(lengths)))

\* The loops of transpose: "result[i][j] = arrayLike[j][i]" for i below
\* minLen and j below arrayLike.length.
TransposeRows(arrayLike, minLen) ==
    [i \in 1..minLen |-> [j \in 1..Len(arrayLike) |-> arrayLike[j][i]]]

\* transpose(arrayLike): the lengths of the rows are read with
\* pluck(arrayLike, "length"), and what pluck throws transpose throws.
transpose(arrayLike) ==
    LET lengths == pluck(arrayLike, "length")
    IN  IF lengths.kind = "threw"
        THEN lengths
        ELSE Returned(TransposeRows(arrayLike, MathMin(lengths.value)))

\* "var zip = compose(transpose, list)".
zip(arguments) == transpose(list(arguments))

\* "transpose(arrayLike)" is evaluated.
Transpose(arrayLike) ==
    /\ util.op = "none"
    /\ util' = [op |-> "transpose", arrayLike |-> arrayLike,
                out |-> transpose(arrayLike)]
    /\ UNCHANGED notUtil

\* "zip(a, b, ...)" is evaluated.
Zip(lists) ==
    /\ util.op = "none"
    /\ util' = [op |-> "zip", arrayLike |-> lists, out |-> zip(lists)]
    /\ UNCHANGED notUtil

\* "transpose(zip(a, b))" is evaluated for lists a and b of one length.
Unzip(a, b) ==
    /\ util.op = "none"
    /\ Len(a) = Len(b)
    /\ util' = [op |-> "unzip", arrayLike |-> <<a, b>>,
                out |-> IF zip(<<a, b>>).kind = "threw"
                        THEN zip(<<a, b>>)
                        ELSE transpose(zip(<<a, b>>).value)]
    /\ UNCHANGED notUtil

NextTranspose ==
    \/ \E arrayLike \in Matrices : Transpose(arrayLike)
    \/ \E lists \in Matrices : Zip(lists)
    \/ \E a \in Rows, b \in Rows : Unzip(a, b)
    \/ UtilReturn

SpecTranspose == Init /\ [][NextTranspose]_vars

\* ---------------------------------------------------------------------
\* setIn and setKey (object.js:22-30, 110-118, 405-414, 594-596, 619-621)

\* An object is its own properties in creation order, each with a key, a
\* value and its enumerability, and the properties of its prototype. A
\* value is the name of what the property refers to.
ObjKeys == {"a", "b", "c"}
ObjRefs == {"o1", "o2"}
PropsOver(keys) ==
    [key : keys, value : ObjRefs, enumerable : BOOLEAN]
DistinctKeys(plist) ==
    \A i \in 1..Len(plist), j \in 1..Len(plist) :
        plist[i].key = plist[j].key => i = j
Objects ==
    [own : {plist \in SeqsUpTo(PropsOver(ObjKeys), MaxLen - 1) :
                DistinctKeys(plist)},
     proto : SeqsUpTo(PropsOver({"a"}), 1)]

\* "{}": no own property, and Object.prototype has no enumerable one.
EmptyObject == [own |-> <<>>, proto |-> <<>>]

KeysIn(plist) == {plist[i].key : i \in 1..Len(plist)}
PropOf(plist, key) == CHOOSE i \in 1..Len(plist) : plist[i].key = key

\* "obj[key]": the own property, else the inherited one, else undefined.
ObjGet(obj, key) ==
    IF key \in KeysIn(obj.own) THEN obj.own[PropOf(obj.own, key)].value
    ELSE IF key \in KeysIn(obj.proto)
         THEN obj.proto[PropOf(obj.proto, key)].value
    ELSE UNDEF

\* "obj[key] = value": the own property is written, or created enumerable
\* after the others.
ObjSet(obj, key, value) ==
    IF key \in KeysIn(obj.own)
    THEN [obj EXCEPT !.own[PropOf(obj.own, key)].value = value]
    ELSE [obj EXCEPT !.own = Append(@, [key |-> key, value |-> value,
                                        enumerable |-> TRUE])]

\* enumerables(obj): the keys "for (var key in obj)" visits, the enumerable
\* own ones, then the enumerable inherited ones that no own property
\* shadows.
enumerables(obj) ==
    SelectSeq([i \in 1..Len(obj.own) |-> obj.own[i]],
              LAMBDA p : p.enumerable)
    \o SelectSeq([i \in 1..Len(obj.proto) |-> obj.proto[i]],
                 LAMBDA p : p.enumerable /\ p.key \notin KeysIn(obj.own))

\* make(keys, values): "result[keys[i]] = i < valuesLen ? values[i] :
\* void 0" from an empty object.
RECURSIVE MakeFrom(_, _, _, _)
MakeFrom(keys, values, i, result) ==
    IF i >= Len(keys) THEN result
    ELSE MakeFrom(keys, values, i + 1,
                  ObjSet(result, ArrayGet(keys, i),
                         IF i < Len(values) THEN ArrayGet(values, i)
                         ELSE UNDEF))

make(keys, values) == MakeFrom(keys, values, 0, EmptyObject)

\* The object the fold of _merge accumulates into: a new one, the "{}"
\* given to reduce as its initial value.
AccumulatorFirst(sources) == sources[1]
Accumulator(sources) == "result"

\* The inner forEach of _merge: "result[key] = source[key]" for each of
\* the keys, in the heap of objects.
RECURSIVE MergeKeys(_, _, _, _, _)
MergeKeys(heap, result, source, keys, k) ==
    IF k > Len(keys) THEN heap
    ELSE MergeKeys([heap EXCEPT ![result] =
                        ObjSet(@, keys[k].key, ObjGet(heap[source], keys[k].key))],
                   result, source, keys, k + 1)

\* The fold of _merge over the sources, the objects after the first
\* argument.
RECURSIVE MergeFrom(_, _, _, _)
MergeFrom(heap, result, sources, s) ==
    IF s > Len(sources) THEN heap
    ELSE MergeFrom(MergeKeys(heap, result, sources[s],
                             enumerables(heap[sources[s]]), 1),
                   result, sources, s + 1)

\* _merge(enumerables, source, ...): the heap after the fold, and the name
\* of the object returned.
_merge(heap, sources) ==
    LET result == Accumulator(sources)
        fresh == [n \in DOMAIN heap \cup {"result"} |->
                    IF n \in DOMAIN heap THEN heap[n] ELSE EmptyObject]
    IN  [heap |-> MergeFrom(fresh, result, sources, 1), value |-> result]

\* setIn(source, key, value): "_merge(enumerables, source, make([key],
\* [value]))", source being the object named src.
setIn(obj, arguments) ==
    LET heap == [n \in {"src", "made"} |->
                    IF n = "src" THEN obj
                    ELSE make(<<ArrayGet(arguments, 1)>>,
                              <<ArrayGet(arguments, 2)>>)]
    IN  _merge(heap, <<ArrayGet(arguments, 0), "made">>)

\* setKey(key, value)(...arguments): "partial(setIn, _, key, value)".
setKey(key, value, obj, arguments) ==
    setIn(obj, NewArgsFrom(<<PH, key, value>>, arguments, 0, 0, <<>>))

\* "setIn(source, key, value)" is evaluated.
SetIn(obj, key, value) ==
    /\ util.op = "none"
    /\ util' = [op |-> "setIn", source |-> obj, key |-> key, value |-> value,
                out |-> setIn(obj, <<"src", key, value>>)]
    /\ UNCHANGED notUtil

\* "setKey(key, value)(source)" is evaluated.
SetKey(obj, key, value) ==
    /\ util.op = "none"
    /\ util' = [op |-> "setKey", source |-> obj, key |-> key, value |-> value,
                out |-> setKey(key, value, obj, <<"src">>)]
    /\ UNCHANGED notUtil

NextSetIn ==
    \/ \E obj \in Objects, key \in ObjKeys, value \in ObjRefs :
            SetIn(obj, key, value)
    \/ \E obj \in Objects, key \in ObjKeys, value \in ObjRefs :
            SetKey(obj, key, value)
    \/ UtilReturn

SpecSetIn == Init /\ [][NextSetIn]_vars

\* ---------------------------------------------------------------------
\* filter, group and partition, and the functions filterWith, groupBy and
\* partitionWith build from them (array_basics.js:89-102,
\* array.js:171-173, 359-375, 411-413, 569-579, 609-611)

\* What a list operation gives: its outcome, and the this of each call it
\* made of its predicate or iteratee, in order.
Outcome(out, calls) == [out |-> out, calls |-> calls]

\* Whether a value a predicate returned counts as true.
Truthy(v) == v \notin {"false", UNDEF, "0", "-0", "NaN", ""}

\* The loop of filter: "predicate(arrayLike[i], i, arrayLike) &&
\* result.push(arrayLike[i])", this being what predicate was bound to.
RECURSIVE FilterFrom(_, _, _, _, _, _)
FilterFrom(arrayLike, predicate, this, i, result, calls) ==
    IF ~(i < Len(arrayLike))
    THEN Outcome(Returned(result), calls)
    ELSE LET el == ArrayGet(arrayLike, i)
             r == Call(predicate, this, <<el, i, arrayLike>>)
         IN  FilterFrom(arrayLike, predicate, this, i + 1,
                        IF Truthy(r.value) THEN Append(result, el) ELSE result,
                        Append(calls, this))

\* filter(arrayLike, predicate, predicateContext), given its arguments
\* object: "if (arguments.length === 3) predicate =
\* predicate.bind(predicateContext)".
filter(arguments) ==
    FilterFrom(arguments[1], arguments[2],
               IF Len(arguments) = 3 THEN arguments[3] ELSE UNDEF,
               0, <<>>, <<>>)

\* filterWith(predicate, predicateContext)(...arguments): "partial(filter,
\* _, predicate, predicateContext)".
filterWith(predicate, predicateContext, arguments) ==
    filter(NewArgsFrom(<<PH, predicate, predicateContext>>, arguments, 0, 0, <<>>))

\* The names every "{}" inherits from Object.prototype that the model
\* distinguishes; what they refer to has no push.
InheritedNames == {"constructor", "toString"}

\* "key in result" for the lookup table of group.
KeyIn(key, result) == key \in DOMAIN result \/ key \in InheritedNames

\* The loop of group: "if (key in result) result[key].push(element); else
\* result[key] = [element];".
RECURSIVE GroupFrom(_, _, _, _, _, _)
GroupFrom(arrayLike, iteratee, iterateeContext, i, result, calls) ==
    IF ~(i < Len(arrayLike))
    THEN Outcome(Returned(result), calls)
    ELSE LET element == ArrayGet(arrayLike, i)
             key == Call(iteratee, iterateeContext, <<element, i, arrayLike>>).value
             called == Append(calls, iterateeContext)
         IN  IF KeyIn(key, result)
             THEN IF key \in DOMAIN result
                  THEN GroupFrom(arrayLike, iteratee, iterateeContext, i + 1,
                                 [result EXCEPT ![key] = Append(@, element)],
                                 called)
                  ELSE Outcome(Threw("TypeError"), called)
             ELSE GroupFrom(arrayLike, iteratee, iterateeContext, i + 1,
                            [k \in DOMAIN result \cup {key} |->
                                IF k = key THEN <<element>> ELSE result[k]],
                            called)

\* group(arrayLike, iteratee, iterateeContext), given its arguments object:
\* the lookup table starts as "{}".
group(arguments) ==
    GroupFrom(ArrayGet(arguments, 0), ArrayGet(arguments, 1),
              ArrayGet(arguments, 2), 0, [k \in {} |-> <<>>], <<>>)

\* groupBy(iteratee, iterateeContext)(...arguments): "partial(group, _,
\* iteratee, iterateeContext)".
groupBy(iteratee, iterateeContext, arguments) ==
    group(NewArgsFrom(<<PH, iteratee, iterateeContext>>, arguments, 0, 0, <<>>))

\* The loop of partition: "result[predicate.call(predicateContext, el, i,
\* arrayLike) ? 0 : 1].push(el)".
RECURSIVE PartitionFrom(_, _, _, _, _, _)
PartitionFrom(arrayLike, predicate, predicateContext, i, result, calls) ==
    IF ~(i < Len(arrayLike))
    THEN Outcome(Returned(result), calls)
    ELSE LET el == ArrayGet(arrayLike, i)
             r == Call(predicate, predicateContext, <<el, i, arrayLike>>)
             side == IF Truthy(r.value) THEN 1 ELSE 2
         IN  PartitionFrom(arrayLike, predicate, predicateContext, i + 1,
                           [result EXCEPT ![side] = Append(@, el)],
                           Append(calls, predicateContext))

\* partition(arrayLike, predicate, predicateContext), given its arguments
\* object.
partition(arguments) ==
    PartitionFrom(ArrayGet(arguments, 0), ArrayGet(arguments, 1),
                  ArrayGet(arguments, 2), 0, <<<<>>, <<>>>>, <<>>)

\* partitionWith(predicate, predicateContext)(...arguments):
\* "partial(partition, _, predicate, predicateContext)".
partitionWith(predicate, predicateContext, arguments) ==
    partition(NewArgsFrom(<<PH, predicate, predicateContext>>, arguments, 0, 0, <<>>))

\* The contexts given to the builders, the elements of the lists, and what
\* a built function receives after the list when it is used as a callback.
Contexts == {"ctx", "other"}
ListVals == {"a", "b"}
Lists == SeqsUpTo(ListVals, MaxLen - 1)
Surplus == SeqsUpTo({"0"}, MaxArgs)

\* "mapWith(fn, ctx)(arrayLike, ...surplus)" is evaluated; each entry of
\* the result records the this fn ran with.
MapWithCall(ctx, arrayLike, surplus) ==
    /\ util.op = "none"
    /\ util' = [op |-> "mapWith", ctx |-> ctx, arrayLike |-> arrayLike,
                surplus |-> surplus,
                out |-> LET r == mapWith("fn", ctx, <<arrayLike>> \o surplus)
                        IN  Outcome(r, [i \in 1..Len(r.value) |-> r.value[i].this])]
    /\ UNCHANGED notUtil

\* "filterWith(isA, ctx)(arrayLike, ...surplus)" is evaluated.
FilterWithCall(ctx, arrayLike, surplus) ==
    /\ util.op = "none"
    /\ util' = [op |-> "filterWith", ctx |-> ctx, arrayLike |-> arrayLike,
                surplus |-> surplus,
                out |-> filterWith("isA", ctx, <<arrayLike>> \o surplus)]
    /\ UNCHANGED notUtil

\* "groupBy(identity, ctx)(arrayLike, ...surplus)" is evaluated.
GroupByCall(ctx, arrayLike, surplus) ==
    /\ util.op = "none"
    /\ util' = [op |-> "groupBy", ctx |-> ctx, arrayLike |-> arrayLike,
                surplus |-> surplus,
                out |-> groupBy("identity", ctx, <<arrayLike>> \o surplus)]
    /\ UNCHANGED notUtil

\* "partitionWith(isA, ctx)(arrayLike, ...surplus)" is evaluated.
PartitionWithCall(ctx, arrayLike, surplus) ==
    /\ util.op = "none"
    /\ util' = [op |-> "partitionWith", ctx |-> ctx, arrayLike |-> arrayLike,
                surplus |-> surplus,
                out |-> partitionWith("isA", ctx, <<arrayLike>> \o surplus)]
    /\ UNCHANGED notUtil

NextWith ==
    \/ \E ctx \in Contexts, arrayLike \in Lists, surplus \in Surplus :
            MapWithCall(ctx, arrayLike, surplus)
    \/ \E ctx \in Contexts, arrayLike \in Lists, surplus \in Surplus :
            FilterWithCall(ctx, arrayLike, surplus)
    \/ \E ctx \in Contexts, arrayLike \in Lists, surplus \in Surplus :
            GroupByCall(ctx, arrayLike, surplus)
    \/ \E ctx \in Contexts, arrayLike \in Lists, surplus \in Surplus :
            PartitionWithCall(ctx, arrayLike, surplus)
    \/ UtilReturn

SpecWith == Init /\ [][NextWith]_vars

\* The elements of the lists given to group, keys of their own under the
\* identity iteratee.
GroupVals == {"a", "b", "constructor", "toString"}

\* "group(arrayLike, iteratee)" is evaluated.
Group(arrayLike, iteratee) ==
    /\ util.op = "none"
    /\ util' = [op |-> "group", arrayLike |-> arrayLike, iteratee |-> iteratee,
                out |-> group(<<arrayLike, iteratee>>).out]
    /\ UNCHANGED notUtil

NextGroup ==
    \/ \E arrayLike \in SeqsUpTo(GroupVals, MaxLen), iteratee \in {"identity", "typeOf"} :
            Group(arrayLike, iteratee)
    \/ UtilReturn

SpecGroup == Init /\ [][NextGroup]_vars

\* ---------------------------------------------------------------------
\* takeWhile and dropWhile (array.js:2-9, 147-151, 766-770)

\* A predicate is the set of the elements it accepts.
Predicates == SUBSET ListVals

\* "predicate.call(predicateContext, arrayLike[idx], idx, arrayLike)".
Holds(predicate, element) == element \in predicate

\* The condition of the loop of _findSliceEndIndex, "++idx < len &&
\* predicate.call(...)", held being what the predicate returned when it
\* was called.
LoopGoesOnToEnd(idx, len, held) == idx < len
LoopGoesOn(idx, len, held) == idx < len /\ held

\* The loop of _findSliceEndIndex from idx on: the index it ends with and
\* the indices the predicate was called on, in order.
RECURSIVE FindSliceEndFrom(_, _, _, _)
FindSliceEndFrom(arrayLike, predicate, idx, calls) ==
    LET next == idx + 1
        len == Len(arrayLike)
        called == next < len
        held == called /\ Holds(predicate, ArrayGet(arrayLike, next))
        log == IF called THEN Append(calls, next) ELSE calls
    IN  IF LoopGoesOn(next, len, held)
        THEN FindSliceEndFrom(arrayLike, predicate, next, log)
        ELSE [idx |-> next, calls |-> log]

\* _findSliceEndIndex(arrayLike, predicate, predicateContext): "var idx =
\* -1" and the loop.
_findSliceEndIndex(arrayLike, predicate) ==
    FindSliceEndFrom(arrayLike, predicate, -1, <<>>)

\* slice(arrayLike, ...margs) on a list.
slice(arrayLike, margs) ==
    ArraySlice([type |-> "array", items |-> arrayLike], margs).value

\* takeWhile(predicate)(arrayLike): "slice(arrayLike, 0,
\* _findSliceEndIndex(arrayLike, predicate, predicateContext))".
takeWhile(predicate, arrayLike) ==
    LET end == _findSliceEndIndex(arrayLike, predicate)
    IN  [value |-> slice(arrayLike, <<0, end.idx>>), calls |-> end.calls]

\* dropWhile(predicate)(arrayLike): "slice(arrayLike,
\* _findSliceEndIndex(arrayLike, predicate, predicateContext))".
dropWhile(predicate, arrayLike) ==
    LET end == _findSliceEndIndex(arrayLike, predicate)
    IN  [value |-> slice(arrayLike, <<end.idx>>), calls |-> end.calls]

\* "takeWhile(predicate)(arrayLike)" is evaluated.
TakeWhile(predicate, arrayLike) ==
    /\ util.op = "none"
    /\ util' = [op |-> "takeWhile", predicate |-> predicate,
                arrayLike |-> arrayLike, out |-> takeWhile(predicate, arrayLike)]
    /\ UNCHANGED notUtil

\* "dropWhile(predicate)(arrayLike)" is evaluated.
DropWhile(predicate, arrayLike) ==
    /\ util.op = "none"
    /\ util' = [op |-> "dropWhile", predicate |-> predicate,
                arrayLike |-> arrayLike, out |-> dropWhile(predicate, arrayLike)]
    /\ UNCHANGED notUtil

NextWhile ==
    \/ \E predicate \in Predicates, arrayLike \in SeqsUpTo(ListVals, MaxLen) :
            TakeWhile(predicate, arrayLike)
    \/ \E predicate \in Predicates, arrayLike \in SeqsUpTo(ListVals, MaxLen) :
            DropWhile(predicate, arrayLike)
    \/ UtilReturn

SpecWhile == Init /\ [][NextWhile]_vars

\* ------------------------------------------------- claims about partial
\* The calls of the built function that have handed their vector to fn.
AppliedFrames == {c \in Callers : frame[c].pc = "applied"}

\* The number of placeholders among the first n slots of S.
PlaceholdersIn(S, n) == Cardinality({k \in 1..n : k <= Len(S) /\ S[k] = PH})

\* The argument vector described in prose: slot j of S verbatim when it is
\* concrete, else the runtime argument whose 0-based index is the number of
\* placeholders before j (undefined when R has no such argument); after the
\* slots, the runtime arguments no placeholder consumed.
ExpectedVector(S, R) ==
    LET p == PlaceholdersIn(S, Len(S))
        rest == IF Len(R) > p THEN Len(R) - p ELSE 0
    IN  [j \in 1..(Len(S) + rest) |->
            IF j <= Len(S)
            THEN IF S[j] = PH
                 THEN (IF PlaceholdersIn(S, j - 1) < Len(R)
                       THEN R[PlaceholdersIn(S, j - 1) + 1] ELSE UNDEF)
                 ELSE S[j]
            ELSE R[p + (j - Len(S))]]

\* C1: a call of the built function invokes fn exactly once (not at all
\* before its loops have ended), with the bound slots scanned left to right,
\* every concrete slot copied, the k-th placeholder replaced by the k-th
\* runtime argument, and the unconsumed runtime arguments appended in order;
\* partial(fn, a, _)(x) passes (a, x) and partial(fn, _, b)(x, _) passes
\* (x, b, _).
C1_SubstitutionVector ==
    \A c \in Callers :
        /\ frame[c].pc = "running" => frame[c].applied = 0
        /\ frame[c].pc = "applied" =>
            /\ frame[c].applied = 1
            /\ frame[c].passed = ExpectedVector(args, frame[c].arguments)
            /\ (args = <<"a", PH>> /\ frame[c].arguments = <<"x">>)
                    => frame[c].passed = <<"a", "x">>
            /\ (args = <<PH, "b">> /\ frame[c].arguments = <<"x", PH>>)
                    => frame[c].passed = <<"x", "b", PH>>

\* C1 witness: partial(fn, _, b) was called with two runtime arguments and
\* fn has received its vector.
C1_Witness ==
    \E c \in Callers :
        /\ frame[c].pc = "applied"
        /\ args = <<PH, "b">>
        /\ frame[c].arguments = <<"x", PH>>

\* C2: with fewer runtime arguments than placeholders fn is still invoked,
\* with as many arguments as there are bound slots; the concrete slots keep
\* their positions, the placeholders that found a runtime argument hold it
\* and every other placeholder position holds undefined. No step of a call
\* can fail, so such a call always has its Apply step ahead.
C2_MissingArgumentsAreUndefined ==
    \A c \in Callers :
        LET f == frame[c]
            short == Len(f.arguments) < PlaceholdersIn(args, Len(args))
        IN  /\ (f.pc = "running" /\ short) =>
                    (ENABLED For1(c) \/ ENABLED Apply(c))
            /\ (f.pc = "applied" /\ short) =>
                /\ Len(f.passed) = Len(args)
                /\ \A j \in 1..Len(args) :
                    /\ args[j] # PH => f.passed[j] = args[j]
                    /\ (args[j] = PH
                        /\ PlaceholdersIn(args, j - 1) >= Len(f.arguments))
                            => f.passed[j] = UNDEF

\* C2 witness: partial(fn, _, _) called with one argument has invoked fn.
C2_Witness ==
    \E c \in Callers :
        /\ frame[c].pc = "applied"
        /\ args = <<PH, PH>>
        /\ Len(frame[c].arguments) = 1

\* C3: the captured slot list never changes once partial has returned, and
\* the vector a call passes to fn is decided by the slots and by that call's
\* own runtime arguments: a call's arguments stay what its caller passed
\* while another call runs, and two calls given the same runtime arguments
\* pass the same vector, however their steps interleave.
C3_NoStateBetweenCalls ==
    /\ [][built => args' = args]_vars
    /\ [][\A c \in Callers :
            (frame[c].pc # "idle" /\ frame'[c].pc # "idle")
                => frame'[c].arguments = frame[c].arguments]_vars
    /\ [](\A c, d \in AppliedFrames :
            frame[c].arguments = frame[d].arguments
                => frame[c].passed = frame[d].passed)

\* C3 witness: two calls with the same runtime arguments, which a
\* placeholder slot consumes, have both invoked fn.
C3_Witness ==
    /\ AppliedFrames = Callers
    /\ \E j \in 1..Len(args) : args[j] = PH
    /\ \A c \in Callers : frame[c].arguments = <<"x", PH>>

\* A list with every placeholder replaced by the ordinary value "x".
Ordinary(s) == [k \in 1..Len(s) |-> IF s[k] = PH THEN "x" ELSE s[k]]

\* C4: a placeholder among the runtime arguments is an ordinary value. It
\* consumes no other runtime argument: the vector has one entry per bound
\* slot plus one per runtime argument beyond the builder's placeholders. And
\* a call whose runtime placeholders are replaced by an ordinary value
\* passes the same vector with the same replacement.
C4_RuntimePlaceholderIsOrdinary ==
    /\ \A c \in AppliedFrames :
        LET p == PlaceholdersIn(args, Len(args))
            n == Len(frame[c].arguments)
        IN  Len(frame[c].passed) = Len(args) + (IF n > p THEN n - p ELSE 0)
    /\ \A c, d \in AppliedFrames :
        frame[d].arguments = Ordinary(frame[c].arguments)
            => frame[d].passed = Ordinary(frame[c].passed)

\* C4 witness: one call was given placeholders at run time, one fills a
\* builder placeholder and one is appended, and another call was given
\* ordinary values in their place.
C4_Witness ==
    \E c, d \in AppliedFrames :
        /\ args = <<"a", PH>>
        /\ frame[c].arguments = <<PH, PH>>
        /\ frame[d].arguments = <<"x", "x">>

\* The number of placeholders in a list.
CountPH(s) == Cardinality({k \in 1..Len(s) : s[k] = PH})

\* C5 as stated: the vector passed to fn never contains the placeholder.
C5_PlaceholderNeverPassed ==
    \A c \in AppliedFrames :
        \A j \in 1..Len(frame[c].passed) : frame[c].passed[j] # PH

\* C5 amended: the vector passed to fn holds the placeholder only where a
\* runtime argument that is itself the placeholder was put: it holds as many
\* placeholders as the runtime arguments do, so none when they hold none,
\* and no placeholder slot of the builder is passed through.
C5_PlaceholderOnlyFromRuntime ==
    \A c \in AppliedFrames :
        CountPH(frame[c].passed) = CountPH(frame[c].arguments)

\* C5 witness: a call with fewer runtime arguments than placeholder slots,
\* none of them the placeholder, has invoked fn.
C5_Witness ==
    \E c \in AppliedFrames :
        /\ args = <<PH, PH>>
        /\ frame[c].arguments = <<"x">>

\* ------------------------------------------------ claims about currying
\* The curried function that the latest call was made on.
Callee == curried[last.callee]

\* Curried function i was reached by calls of one argument each.
OneByOne(i) == curried[i].calls = Len(curried[i].supplied)

\* C6: feeding a curried function of arity n one argument per call invokes
\* fn at the n-th call and not before: a function reached by k calls of one
\* argument is still waiting, so k < n; the call that supplies the n-th
\* argument returns a result and no function; and that result is fn's, for
\* the arguments in the order they were supplied, fn having been invoked
\* once.
C6_CurryRoundTrip ==
    /\ \A i \in DOMAIN curried :
            OneByOne(i) => curried[i].calls < curried[i].arity
    /\ (last.kind # "none" /\ Len(last.xs) = 1 /\ OneByOne(last.callee)) =>
        /\ last.kind = "result" <=> Callee.calls + 1 = Callee.arity
        /\ last.kind = "result" =>
            /\ last.invoked = 1
            /\ last.vec = Callee.supplied \o last.xs
            /\ last.result = FnResult(Callee.fn, Callee.supplied \o last.xs)

\* C6 witness: the third call of one argument on a curried function of
\* arity 3 has returned a result.
C6_Witness ==
    /\ last.kind = "result"
    /\ Len(last.xs) = 1
    /\ OneByOne(last.callee)
    /\ Callee.arity = 3
    /\ Callee.calls = 2

\* C7: without the strict flag a call returns fn's result exactly when the
\* running total of arguments reaches the arity with it, whatever the sizes
\* of the calls were; fn is then invoked once with everything accumulated,
\* in order, the arguments beyond the arity included as trailing arguments.
\* So for arity 3 the chains (1)(2)(3), (1,2)(3) and (1)(2,3) pass the same
\* three arguments.
C7_BatchesAndExtras ==
    (last.kind # "none" /\ ~Callee.strict) =>
        /\ Len(Callee.supplied) < Callee.arity
        /\ last.kind # "ArityMismatch"
        /\ last.kind = "result"
            <=> Len(Callee.supplied) + Len(last.xs) >= Callee.arity
        /\ last.kind = "result" =>
            /\ last.invoked = 1
            /\ last.vec = Callee.supplied \o last.xs
            /\ last.result = FnResult(Callee.fn, last.vec)

\* C7 witness: a non-strict curried function of arity 3 that holds two
\* arguments from one call was completed by a call of two arguments.
C7_Witness ==
    /\ last.kind = "result"
    /\ ~Callee.strict
    /\ Callee.arity = 3
    /\ Callee.calls = 1
    /\ Len(Callee.supplied) = 2
    /\ Len(last.xs) = 2
    /\ Len(last.vec) = 4

C9_IntermediatesImmutable ==
    /\ [][\A i \in DOMAIN curried :
            i \in DOMAIN curried' /\ curried'[i] = curried[i]]_vars
    /\ [][(last'.kind = "partial" /\ last' # last)
            => last'.new \notin DOMAIN curried]_vars
    /\ [](last.kind = "result" =>
            /\ Callee.acc = Callee.supplied
            /\ last.vec = Callee.supplied \o last.xs)

\* C9 witness: an intermediate that was already called once, which gave a
\* further intermediate, has been completed.
C9_Witness ==
    /\ last.kind = "result"
    /\ last.callee > 1
    /\ \E j \in DOMAIN curried :
        /\ j > last.callee
        /\ curried[j].calls = Callee.calls + 1
        /\ SubSeq(curried[j].supplied, 1, Len(Callee.supplied))
                = Callee.supplied

C11_GenericForwardsReceiver ==
    (gcall.kind = "done" /\ Callable(wrapper.boundThis) /\ Len(gcall.A) > 0) =>
        /\ gcall.out = CallMethod(wrapper.boundThis, Head(gcall.A), Tail(gcall.A))
        /\ (wrapper.boundThis = "m" =>
                /\ gcall.out.kind = "returned"
                /\ gcall.out.this = Head(gcall.A)
                /\ gcall.out.args = Tail(gcall.A))
        /\ (wrapper.boundThis = "slice" /\ gcall.A = <<ArrayRecv, 1, 3>> =>
                gcall.out.value = <<"2", "3">>)
        /\ (wrapper.boundThis = "slice" /\ gcall.A = <<StringRecv, 0, 3>> =>
                gcall.out.value = <<"f", "o", "o">>)

\* C11 witness: slice([1, 2, 3, 4], 1, 3) has returned.
C11_Witness ==
    /\ gcall.kind = "done"
    /\ wrapper.boundThis = "slice"
    /\ gcall.A = <<ArrayRecv, 1, 3>>
    /\ gcall.out.kind = "returned"

\* C12: generic(x) and partial(x, ...) return a function without an error
\* for every x, callable or not. A TypeError comes only out of a call of
\* the returned function: always when x is not callable, and otherwise only
\* when the wrapped method rejects the receiver it is given.
C12_NotCallableAtCallTime ==
    /\ wrapper.kind \in {"none", "bound"}
    /\ (wrapper.kind = "none" /\ ~built) =>
            \A x \in GenericTargets : generic(x).kind = "bound"
    /\ (wrapper.kind = "none" /\ ~built) =>
            \A x \in PartialTargets, slots \in SlotLists :
                ENABLED partialOf(x, slots)
    /\ gcall.kind = "done" =>
            /\ ~Callable(wrapper.boundThis) => gcall.out.kind = "TypeError"
            /\ (Callable(wrapper.boundThis) /\ gcall.out.kind = "TypeError") =>
                    /\ wrapper.boundThis = "slice"
                    /\ (gcall.A = <<>> \/ Head(gcall.A) = NullRecv)
    /\ \A c \in Callers :
            /\ frame[c].pc = "threw" => ~Callable(wrappedFn)
            /\ frame[c].pc = "applied" => Callable(wrappedFn)
            /\ (frame[c].pc = "running" /\ ~Callable(wrappedFn)) =>
                    frame[c].applied = 0

\* C12 witness: generic(5) returned a function, and that function has
\* thrown when it was called.
C12_Witness ==
    /\ gcall.kind = "done"
    /\ wrapper.boundThis = "5"
    /\ gcall.out.kind = "TypeError"

\* C20: the function partial built hands the this of its own call to fn:
\* g.call(t, ...R) invokes fn with this = t, and the plain call g(...R)
\* with this = undefined.
C20_ThisPreserved ==
    \A c \in Callers :
        frame[c].pc = "applied" => frame[c].passedThis = frame[c].this

\* C20 witness: fn has been invoked by a call on the object t1.
C20_Witness ==
    /\ frame["c1"].pc = "applied"
    /\ frame["c1"].this = "t1"
    /\ frame["c1"].passedThis = "t1"

\* ---------------------------------------------------------------------
\* Claims about immutable

\* The objects reached from T in at most n steps along the properties
\* whose kind is in K.
RECURSIVE ReachN(_, _, _)
ReachN(T, K, n) ==
    IF n = 0
    THEN T
    ELSE ReachN(T \cup (Nodes \cap UNION {
                    {props[o][key] : key \in {kk \in Keys : kind[o][kk] \in K}} :
                    o \in T}), K, n - 1)

\* The objects reachable from root along the properties of the kinds K.
Reach(root, K) == IF root \in Nodes THEN ReachN({root}, K, MaxNodes) ELSE {}

\* C13: when immutable(root) returns, it returns root, and root and every
\* object reachable from it through property values are frozen, whatever
\* the shape of the graph and whichever objects were frozen before (here
\* every property is an enumerable own property).
C13_ReachableFrozen ==
    \A k \in ImmCalls :
        (imm[k].pc = "returned" /\ imm[k].root \in Nodes) =>
            /\ imm[k].result = imm[k].root
            /\ Reach(imm[k].root, Kinds) \subseteq frozen

\* C13 witness: immutable(o1) has returned where o1 was frozen before the
\* call and its property o2 was not; o2 is frozen now.
C13_Witness ==
    /\ imm["i1"].pc = "returned"
    /\ imm["i1"].root = "o1"
    /\ imm["i1"].before = {"o1"}
    /\ props["o1"].p = "o2"
    /\ "o2" \in frozen

\* C14: every call of immutable ends, by returning or, for a primitive,
\* by a TypeError, and never by exhausting the stack, on every graph,
\* cycles included: an object whose properties are being traversed is
\* already frozen and in seen, so an edge back to it is skipped.
C14_Terminates ==
    /\ \A k \in ImmCalls :
            (imm[k].pc = "running") ~> (imm[k].pc \in {"returned", "threw"})
    /\ [](\A k \in ImmCalls :
            /\ imm[k].pc # "overflow"
            /\ \A n \in 1..Len(imm[k].stack) :
                    (imm[k].stack[n].at = "each" /\ imm[k].stack[n].obj \in Nodes) =>
                        /\ imm[k].stack[n].obj \in frozen
                        /\ Seen(k, imm[k].stack[n].obj))

\* C14 witness: immutable(o1) has returned on the cycle o1.p = o2,
\* o2.q = o1.
C14_Witness ==
    /\ imm["i1"].pc = "returned"
    /\ imm["i1"].root = "o1"
    /\ props["o1"].p = "o2"
    /\ props["o2"].q = "o1"
    /\ frozen = {"o1", "o2"}

\* C15: seen never holds an object twice, and when immutable(root) returns
\* it holds as many objects as are reachable from root: an object with two
\* parents is processed once.
C15_ProcessedOnce ==
    \A k \in ImmCalls :
        /\ Cardinality(Range(imm[k].seen)) = Len(imm[k].seen)
        /\ (imm[k].pc = "returned" /\ imm[k].root \in Nodes) =>
                Len(imm[k].seen) = Cardinality(Reach(imm[k].root, Kinds))

\* C15 witness: immutable(o1) has returned on the diamond o1.p = o1.q = o2.
C15_Witness ==
    /\ imm["i1"].pc = "returned"
    /\ imm["i1"].root = "o1"
    /\ props["o1"].p = "o2"
    /\ props["o1"].q = "o2"
    /\ imm["i1"].seen = <<"o1", "o2">>

\* C16: immutable(immutable(x)) returns x; from its start to its return
\* the second call leaves the set of frozen objects as the first call left
\* it, and no call changes a property.
C16_Idempotent ==
    /\ [](\A k \in ImmCalls :
            (imm[k].again /\ imm[k].pc # "threw") =>
                /\ imm[k].root = imm[k].origin
                /\ frozen = imm[k].before
                /\ (imm[k].pc = "returned" => imm[k].result = imm[k].origin))
    /\ [][props' = props /\ kind' = kind]_vars

\* C16 witness: immutable(immutable(o1)) has returned, o1 and o2 frozen.
C16_Witness ==
    /\ imm["i1"].pc = "returned"
    /\ imm["i1"].again
    /\ imm["i1"].origin = "o1"
    /\ props["o1"].p = "o2"
    /\ frozen = {"o1", "o2"}

\* C17: immutable applied to a primitive, or to an object that is frozen
\* together with everything reachable from it, raises no error, freezes
\* nothing and returns its argument.
C17_PrimitiveOrFrozenIsNoOp ==
    \A k \in ImmCalls :
        (/\ imm[k].pc # "idle"
         /\ \/ imm[k].root \in Primitives
            \/ /\ imm[k].root \in Nodes
               /\ Reach(imm[k].root, Kinds) \subseteq imm[k].before) =>
            /\ imm[k].pc # "threw"
            /\ frozen = imm[k].before
            /\ (imm[k].pc = "returned" => imm[k].result = imm[k].root)

\* C18 as stated: when immutable(root) returns, an object that no chain of
\* enumerable own properties reaches from root is not frozen.
C18_OnlyEnumerableFollowed ==
    \A k \in ImmCalls :
        imm[k].pc = "returned" =>
            \A o \in Nodes \ Reach(imm[k].root, {"own"}) : o \notin frozen

\* C18: immutable follows the own properties, enumerable or not: when
\* immutable(root) returns on a heap of unfrozen objects, the frozen
\* objects are those a chain of own properties reaches from root; an object
\* reached only through an inherited property is not frozen.
C18_OwnPropertiesFollowed ==
    \A k \in ImmCalls :
        imm[k].pc = "returned" =>
            frozen = Reach(imm[k].root, {"own", "hidden"})

\* C18 witness: immutable(o1) has returned and has frozen o2, which o1
\* holds in its non-enumerable own property q and nowhere else.
C18_Witness ==
    /\ imm["i1"].pc = "returned"
    /\ imm["i1"].root = "o1"
    /\ kind["o1"].q = "hidden"
    /\ props["o1"].q = "o2"
    /\ props["o1"].p # "o2"
    /\ "o2" \in frozen

\* C19: a call of immutable starts with an empty seen array and records in
\* it only what it has processed itself: at its return seen holds exactly
\* the objects reachable from its root, however the steps of another call
\* are interleaved; when both calls have returned, everything reachable
\* from either root is frozen.
C19_OwnVisitedSet ==
    /\ \A k \in ImmCalls :
            /\ Range(imm[k].seen) \subseteq Reach(imm[k].root, Kinds)
            /\ imm[k].stack = <<Entering(imm[k].root)>> => imm[k].seen = <<>>
            /\ imm[k].pc = "returned" =>
                    Range(imm[k].seen) = Reach(imm[k].root, Kinds)
    /\ (\A k \in ImmCalls : imm[k].pc = "returned") =>
            \A k \in ImmCalls : Reach(imm[k].root, Kinds) \subseteq frozen

\* C19 witness: immutable(o1) and immutable(o2) have both returned, o2
\* being a property of o1, and each has o2 in its own seen array.
C19_Witness ==
    /\ imm["i1"].pc = "returned"
    /\ imm["i2"].pc = "returned"
    /\ imm["i1"].root = "o1"
    /\ imm["i2"].root = "o2"
    /\ props["o1"].p = "o2"
    /\ Seen("i1", "o2")
    /\ Seen("i2", "o2")

\* ---------------------------------------------------------------------
\* Claims about the array and object utilities

Sorted(arr, comparer, reader) ==
    \A m \in 1..Len(arr), n \in 1..Len(arr) :
        m < n => Compare(comparer, Read(reader, arr[m]), Read(reader, arr[n])) <= 0

\* The array arr without its n-th element.
Without(arr, n) == SubSeq(arr, 1, n - 1) \o SubSeq(arr, n + 1, Len(arr))

\* C22: insert leaves array as it was and returns an array one longer that
\* is array with element put in at some position; when array is sorted
\* with respect to the comparer and the reader so is the result, and
\* insert([], x) is [x].
C22_InsertKeepsOrder ==
    util.op = "insert" =>
        LET result == util.out.value
        IN  /\ util.array = util.given
            /\ Len(result) = Len(util.given) + 1
            /\ \E n \in 1..Len(result) :
                    /\ result[n] = util.element
                    /\ Without(result, n) = util.given
            /\ Sorted(util.given, util.comparer, util.reader) =>
                    Sorted(result, util.comparer, util.reader)
            /\ util.given = <<>> => result = <<util.element>>

\* C22 witness: the doc's insert([4, 2, 1], 3, descending) on smaller
\* numbers, insert([2, 1, 0], 1, descending), whose result is sorted.
C22_Witness ==
    /\ util.op = "insert"
    /\ util.given = <<2, 1, 0>>
    /\ util.element = 1
    /\ util.comparer = "descending"
    /\ util.out.value \in {<<2, 1, 1, 0>>}

\* C23: isIn(arrayLike, value, fromIndex), and contains(value,
\* fromIndex)(arrayLike), is true exactly when an index i of arrayLike
\* with i >= fromIndex (0 by default) holds an element that is
\* SameValueZero-equal to value, for negative fromIndex and for the value
\* undefined too.
C23_IsInFromIndex ==
    util.op \in {"isIn", "contains"} =>
        util.out.value =
            \E n \in 1..Len(util.arrayLike) :
                /\ n - 1 >= ToInt32(util.fromIndex)
                /\ isSVZ(util.value, util.arrayLike[n])

\* The value the iteratee of the call in progress gives to v.
IterateeValue(v) ==
    IF util.iteratee = UNDEF THEN v ELSE TypeName(v)

\* The positions of arr whose value is SameValueZero-equal to that of no
\* earlier position.
FirstOccurrences(arr) ==
    {n \in 1..Len(arr) :
        \A m \in 1..(n - 1) : ~isSVZ(IterateeValue(arr[m]), IterateeValue(arr[n]))}

\* C24: uniques(arrayLike, iteratee) is arrayLike restricted to the first
\* occurrences of the iteratee's values, in order: no two elements of the
\* result have equal values and every value of arrayLike is that of a
\* result element; union(a, b, ...) is uniques of a, b, ... concatenated.
C24_UniquesFirstOccurrences ==
    util.op \in {"uniques", "union"} =>
        LET arr == util.arrayLike
            result == util.out.value
            K == FirstOccurrences(arr)
        IN  /\ Len(result) = Cardinality(K)
            /\ \A j \in 1..Len(result) :
                    result[j] = arr[CHOOSE n \in K : Cardinality({m \in K : m <= n}) = j]
            /\ \A j \in 1..Len(result), l \in 1..Len(result) :
                    j # l => ~isSVZ(IterateeValue(result[j]), IterateeValue(result[l]))
            /\ \A n \in 1..Len(arr) : \E j \in 1..Len(result) :
                    isSVZ(IterateeValue(arr[n]), IterateeValue(result[j]))

\* C24 witness: uniques([NaN, 0, NaN]) is [NaN, 0], the NaN after 0
\* matching the one before it.
C24_Witness ==
    /\ util.op = "uniques"
    /\ util.iteratee = UNDEF
    /\ util.arrayLike = <<"NaN", "0", "NaN">>
    /\ util.out.value = <<"NaN", "0">>

\* The length of the shortest row of m, 0 when m has no row.
ShortestRow(m) ==
    IF m = <<>> THEN 0
    ELSE CHOOSE l \in {Len(m[j]) : j \in 1..Len(m)} :
            \A j \in 1..Len(m) : l <= Len(m[j])

EnumerableKeys(obj) ==
    {enumerables(obj)[i].key : i \in 1..Len(enumerables(obj))}

\* C26: setIn(source, key, value) leaves source as it was and returns
\* another object, whose keys are the enumerable keys of source and key,
\* all own and enumerable; key refers to value and every other key to what
\* it refers to in source. setKey(key, value)(source) returns an equal
\* object.
C26_SetInCopies ==
    util.op \in {"setIn", "setKey"} =>
        LET result == util.out.heap[util.out.value]
        IN  /\ util.out.heap["src"] = util.source
            /\ util.out.value # "src"
            /\ KeysIn(result.own) = EnumerableKeys(util.source) \cup {util.key}
            /\ \A i \in 1..Len(result.own) : result.own[i].enumerable
            /\ DistinctKeys(result.own)
            /\ ObjGet(result, util.key) = util.value
            /\ \A k \in EnumerableKeys(util.source) \ {util.key} :
                    ObjGet(result, k) = ObjGet(util.source, k)
            /\ util.op = "setKey" =>
                    result = LET again == setIn(util.source,
                                                <<"src", util.key, util.value>>)
                             IN  again.heap[again.value]

\* setIn has been given a source with an enumerable property other than
\* key, one that is not enumerable, and a key the source has already.
C26_Witness ==
    /\ util.op = "setIn"
    /\ util.key \in KeysIn(util.source.own)
    /\ ObjGet(util.source, util.key) # util.value
    /\ EnumerableKeys(util.source) \ {util.key} # {}
    /\ \E i \in 1..Len(util.source.own) : ~util.source.own[i].enumerable

\* C27: the functions built by mapWith(fn, ctx), filterWith(fn, ctx),
\* groupBy(fn, ctx) and partitionWith(fn, ctx) call fn with this = ctx for
\* every element, whatever the number of arguments they receive after the
\* list.
C27_BuiltKeepContext ==
    util.op \in {"mapWith", "filterWith", "groupBy", "partitionWith"} =>
        /\ Len(util.out.calls) = Len(util.arrayLike)
        /\ \A i \in 1..Len(util.out.calls) : util.out.calls[i] = util.ctx

\* The key the iteratee of the group recorded gives for an element.
GroupKey(element) ==
    Call(util.iteratee, UNDEF, <<element, 0, util.arrayLike>>).value

\* C28: group(arrayLike, iteratee) returns a table with one entry per key
\* the iteratee returned, names such as "constructor" included, each the
\* list of the elements with that key in their original order, so that the
\* lists hold arrayLike.length elements together.
C28_GroupAnyKey ==
    util.op = "group" =>
        /\ util.out.kind = "returned"
        /\ DOMAIN util.out.value =
                {GroupKey(util.arrayLike[i]) : i \in 1..Len(util.arrayLike)}
        /\ \A k \in DOMAIN util.out.value :
                util.out.value[k] =
                    SelectSeq(util.arrayLike, LAMBDA element : GroupKey(element) = k)

\* The length of the longest prefix of a whose elements are all in p.
PrefixLen(a, p) ==
    CHOOSE n \in 0..Len(a) :
        /\ \A i \in 1..n : a[i] \in p
        /\ n < Len(a) => a[n + 1] \notin p

\* C29: takeWhile(p)(a) is the longest prefix of a whose elements all
\* satisfy p and dropWhile(p)(a) the rest of a, so that the two put
\* together are a; p is called on the elements in order up to the first
\* that fails it and on none after.
C29_TakeDropWhile ==
    util.op \in {"takeWhile", "dropWhile"} =>
        LET a == util.arrayLike
            n == PrefixLen(a, util.predicate)
        IN  /\ util.op = "takeWhile" => util.out.value = SubSeq(a, 1, n)
            /\ util.op = "dropWhile" => util.out.value = SubSeq(a, n + 1, Len(a))
            /\ takeWhile(util.predicate, a).value
                    \o dropWhile(util.predicate, a).value = a
            /\ util.out.calls =
                    [i \in 1..(IF n < Len(a) THEN n + 1 ELSE n) |-> i - 1]

\* takeWhile has stopped at an element that fails the predicate, after one
\* that satisfies it and before another element.
C29_Witness ==
    /\ util.op = "takeWhile"
    /\ Len(util.out.value) >= 1
    /\ Len(util.out.value) + 1 < Len(util.arrayLike)

====
